---------------------------- MODULE Spec2Model ----------------------------
(***************************************************************************)
(* Model of the markdown-folder-converter: the orchestrator (main) of the  *)
(* four variants of the converter with its sidebar, the slide-deck         *)
(* pipeline (convertPptx / convertPptxToHtml), the extraction of one       *)
(* slide (parseSlideDoc, parseSlide) and the generated viewer page.        *)
(*                                                                         *)
(* File names and URL strings are sequences of one-character strings, so   *)
(* that path.extname, path.basename, toLowerCase, the extension regexes    *)
(* and slugify are modelled by what they do to the characters.  A path is  *)
(* a sequence of names, relative to INPUT_DIR or to OUTPUT_DIR; the runs   *)
(* over the one disk (SpecDirs) use absolute paths, so that OUTPUT_DIR may *)
(* be INPUT_DIR, a directory above it or one below it.                     *)
(***************************************************************************)
EXTENDS Integers, Sequences, FiniteSets, TLC

\* ------------------------------------------------------------------ bounds
\* Largest number of files in the input tree.
MaxFiles == 2

\* Largest number of entries in a deck's archive.
MaxEntries == 3

\* Largest number of shapes in a slide.
MaxShapes == 2

\* Largest number of pictures in a slide.
MaxPics == 2

\* Largest number of slides in a viewer.
MaxSlides == 3

\* Largest number of inputs a viewer is followed through.
MaxSteps == 4

\* --------------------------------------------------------- character level
EXT_DOCX == <<".", "d", "o", "c", "x">>
EXT_PPTX == <<".", "p", "p", "t", "x">>
EXT_XLSX == <<".", "x", "l", "s", "x">>
EXT_MD   == <<".", "m", "d">>
EXT_HTML == <<".", "h", "t", "m", "l">>
EXT_TXT  == <<".", "t", "x", "t">>
LOCK_PREFIX == <<"~", "$">>

\* String.prototype.toLowerCase, on the characters the model uses.
LowerChar(c) ==
    CASE c = "A" -> "a" [] c = "C" -> "c" [] c = "D" -> "d"
      [] c = "O" -> "o" [] c = "X" -> "x" [] OTHER -> c

ToLowerCase(s) == [i \in 1..Len(s) |-> LowerChar(s[i])]

StartsWith(s, pre) ==
    /\ Len(pre) <= Len(s)
    /\ SubSeq(s, 1, Len(pre)) = pre

EndsWith(s, suf) ==
    /\ Len(suf) <= Len(s)
    /\ SubSeq(s, Len(s) - Len(suf) + 1, Len(s)) = suf

\* Index of the last "." of a name, 0 when it has none.
LastDot(s) ==
    LET dots == {i \in 1..Len(s) : s[i] = "."}
    IN  IF dots = {} THEN 0 ELSE CHOOSE i \in dots : \A j \in dots : j <= i

\* path.extname: from the last "." to the end; "" when there is no "." or
\* when the only "." is the first character of the name.
Extname(name) ==
    IF LastDot(name) <= 1 THEN <<>> ELSE SubSeq(name, LastDot(name), Len(name))

\* path.basename(p): the last segment of a path.
Basename(path) == path[Len(path)]

\* path.dirname(p), relative to the root: all segments but the last.
Dirname(path) == SubSeq(path, 1, Len(path) - 1)

\* path.basename(p, ext): the last segment with ext removed when the name
\* ends with exactly ext (the comparison is case-sensitive).
BasenameExt(path, ext) ==
    LET name == Basename(path)
    IN  IF ext # <<>> /\ Len(ext) < Len(name) /\ EndsWith(name, ext)
        THEN SubSeq(name, 1, Len(name) - Len(ext))
        ELSE name

\* str.replace(/\.(e1|e2|...)$/i, to) on a name: exts holds the lower-case
\* alternatives, each with its leading ".".
ReplaceExtI(name, exts, to) ==
    IF \E e \in exts : EndsWith(ToLowerCase(name), e)
    THEN LET e == CHOOSE x \in exts : EndsWith(ToLowerCase(name), x)
         IN  SubSeq(name, 1, Len(name) - Len(e)) \o to
    ELSE name

\* The same replace on a relative path: the regex is anchored at the end of
\* the string and holds no separator, so only the last segment can change.
ReplacePathExtI(path, exts, to) ==
    [path EXCEPT ![Len(path)] = ReplaceExtI(path[Len(path)], exts, to)]

\* title.replace(/"/g, '\\"')
EscapeQuotes(s) ==
    LET RECURSIVE Esc(_)
        Esc(t) == IF t = <<>> THEN <<>>
                  ELSE (IF Head(t) = "\"" THEN <<"\\", "\"">> ELSE <<Head(t)>>)
                       \o Esc(Tail(t))
    IN  Esc(s)


\* ------------------------------------------------------------------ slugify
\* The characters \s and String.prototype.trim take for white space, of the
\* characters the model uses.
Whitespace == {" ", "\n"}

SlugSafe ==
    {"a", "b", "c", "d", "e", "f", "g", "h", "i", "j", "k", "l", "m", "n", "o",
     "p", "q", "r", "s", "t", "u", "v", "w", "x", "y", "z", "0", "1", "2", "3",
     "4", "5", "6", "7", "8", "9", "-", "_", "."}

\* str.replace(/[set]+/g, '-'): every maximal run of characters of the set
\* becomes one dash.
RECURSIVE ReplaceRuns(_, _)
ReplaceRuns(s, set) ==
    IF s = <<>> THEN <<>>
    ELSE IF Head(s) \in set
         THEN IF Len(s) > 1 /\ s[2] \in set
              THEN ReplaceRuns(Tail(s), set)
              ELSE <<"-">> \o ReplaceRuns(Tail(s), set)
         ELSE <<Head(s)>> \o ReplaceRuns(Tail(s), set)

\* str.replace(/^-+|-+$/g, '')
RECURSIVE TrimDashes(_)
TrimDashes(s) ==
    IF s = <<>> THEN <<>>
    ELSE IF Head(s) = "-" THEN TrimDashes(Tail(s))
    ELSE IF s[Len(s)] = "-" THEN TrimDashes(SubSeq(s, 1, Len(s) - 1))
    ELSE s

\* slugify: lower-case, whitespace runs to a dash, every character outside
\* [a-z0-9\-_.] to a dash, dash runs to one dash, no dash at either end.
Slugify(name) ==
    LET lower   == ToLowerCase(name)
        spaced  == ReplaceRuns(lower, Whitespace)
        safe    == [i \in 1..Len(spaced) |->
                      IF spaced[i] \in SlugSafe THEN spaced[i] ELSE "-"]
        dashed  == ReplaceRuns(safe, {"-"})
    IN  TrimDashes(dashed)

\* slugifyRelativePath: slugify on every segment, the last segment keeping
\* its extension as it is.
SlugifyRelativePath(path) ==
    [i \in 1..Len(path) |->
        IF i = Len(path)
        THEN LET ext == Extname(path[i])
             IN  Slugify(BasenameExt(<<path[i]>>, ext)) \o ext
        ELSE Slugify(path[i])]

\* encodeURIComponent on one path segment: the unreserved characters stay,
\* every other character becomes its percent escape.
UriUnreserved == (SlugSafe \cup {"A", "C", "D", "O", "X", "!", "~", "*", "'", "(", ")"})

RECURSIVE EncodeURIComponent(_)
EncodeURIComponent(s) ==
    IF s = <<>> THEN <<>>
    ELSE (IF Head(s) \in UriUnreserved THEN <<Head(s)>>
          ELSE IF Head(s) = "$" THEN <<"%", "2", "4">>
          ELSE IF Head(s) = " " THEN <<"%", "2", "0">>
          ELSE <<"%", Head(s)>>)
         \o EncodeURIComponent(Tail(s))

\* htmlRelFwd.split('/').map(encodeURIComponent).join('/') behind '/slides/'
RECURSIVE JoinUrl(_)
JoinUrl(path) ==
    IF path = <<>> THEN <<>>
    ELSE <<"/">> \o EncodeURIComponent(Head(path)) \o JoinUrl(Tail(path))

\* --------------------------------------------------------------- filesystem
\* A directory tree is a function from relative paths to entries; an entry
\* is a directory or a file with its content.
EmptyFs == [p \in {} |-> [kind |-> "dir"]]

DirEntry == [kind |-> "dir"]

Prefixes(path) == {SubSeq(path, 1, k) : k \in 1..Len(path)}

IsDirectory(fs, p) == p = <<>> \/ (p \in DOMAIN fs /\ fs[p].kind = "dir")

\* fs.mkdirSync(dir, {recursive: true}) throws when dir or one of its
\* ancestors exists and is not a directory.
MkdirpThrows(fs, dir) ==
    \E q \in Prefixes(dir) : q \in DOMAIN fs /\ fs[q].kind # "dir"

Mkdirp(fs, dir) ==
    [q \in (DOMAIN fs) \cup Prefixes(dir) |->
        IF q \in DOMAIN fs THEN fs[q] ELSE DirEntry]

\* fs.writeFileSync / fs.copyFileSync throw when the target is a directory
\* or when its parent is not a directory.
WriteThrows(fs, p) ==
    \/ ~IsDirectory(fs, Dirname(p))
    \/ (p \in DOMAIN fs /\ fs[p].kind = "dir")

WriteFile(fs, p, content) ==
    [q \in (DOMAIN fs) \cup {p} |-> IF q = p THEN content ELSE fs[q]]

\* fs.readdirSync(dir): the names of the entries of dir.  Only files are
\* recorded in the input tree, so a directory is a proper prefix of a file.
ChildNames(files, dir) ==
    {p[Len(dir) + 1] : p \in {q \in files : Len(q) > Len(dir)
                                      /\ SubSeq(q, 1, Len(dir)) = dir}}

IsInputDir(files, p) ==
    \E q \in files : Len(q) > Len(p) /\ SubSeq(q, 1, Len(p)) = p

\* The orders in which readdirSync may list a set of names.
Orderings(S) ==
    {f \in [1..Cardinality(S) -> S] : \A i, j \in 1..Cardinality(S) :
                                          i # j => f[i] # f[j]}

\* walk(dir): every file under dir, a sub-directory's files in the place of
\* the sub-directory; the listing order of each directory is the file
\* system's choice, so walk is modelled by the set of its possible results.
RECURSIVE Walk(_, _)
RECURSIVE WalkListed(_, _, _)
WalkListed(files, dir, names) ==
    IF names = <<>> THEN {<<>>}
    ELSE LET full  == Append(dir, Head(names))
             first == IF IsInputDir(files, full)
                      THEN Walk(files, full)
                      ELSE {<<full>>}
         IN  {a \o b : a \in first, b \in WalkListed(files, dir, Tail(names))}

Walk(files, dir) ==
    UNION {WalkListed(files, dir, o) : o \in Orderings(ChildNames(files, dir))}


\* ------------------------------------------------------------- input trees
A_DOCX    == <<"a">> \o EXT_DOCX
A_PPTX    == <<"a">> \o EXT_PPTX
UP_DOCX   == <<"A", ".", "D", "O", "C", "X">>
LOCK_DOCX == LOCK_PREFIX \o A_DOCX
A_XLSX    == <<"a">> \o EXT_XLSX
LOCK_XLSX == LOCK_PREFIX \o A_XLSX
A_TXT     == <<"a">> \o EXT_TXT
DIR_D     == <<"d">>
DIR_A_MD  == <<"a">> \o EXT_MD
SIDEBAR_TS == <<"s", "i", "d", "e", "b", "a", "r", ".", "t", "s">>
INDEX_MD   == <<"i", "n", "d", "e", "x">> \o EXT_MD
PUBLIC     == <<"p", "u", "b", "l", "i", "c">>
SLIDES     == <<"s", "l", "i", "d", "e", "s">>

\* The files an input tree may hold: every kind of name at the root, some of
\* them below a directory, and one below a directory named like an output
\* file.
PathUniverse ==
    {<<n>> : n \in {A_DOCX, A_PPTX, UP_DOCX, LOCK_DOCX, A_XLSX, LOCK_XLSX, A_TXT}}
    \cup {<<DIR_D, n>> : n \in {A_DOCX, A_XLSX, LOCK_DOCX}}
    \cup {<<DIR_A_MD, A_DOCX>>}

IsDocument(path) ==
    ToLowerCase(Extname(Basename(path))) \in {EXT_DOCX, EXT_PPTX}

\* The input directories: at most MaxFiles files, each with its own data;
\* any document may be malformed (its converter then throws).
InputDirs ==
    UNION {
        UNION {
            { [p \in T |-> [kind |-> "src", data |-> p, corrupt |-> p \in C]] }
            : C \in SUBSET {p \in T : IsDocument(p)} }
        : T \in {U \in SUBSET PathUniverse : Cardinality(U) <= MaxFiles} }

\* What the output directory may hold before a run: nothing, or a file left
\* there earlier.
StaleOutputs ==
    { EmptyFs, (<<DIR_D>> :> [kind |-> "stale"]) }

\* The four orchestrators: convert.ts (Markdown), convert.ts (.docx only,
\* slugified paths), convert.ts (HTML viewer) and convert.js.
Variants == {"md", "docx", "html", "js"}

VARIABLES
    variant,       \* which orchestrator runs
    inputExists,   \* fs.existsSync(INPUT_DIR)
    inFiles,       \* the files under INPUT_DIR: relative path -> content
    outFs,         \* the tree under OUTPUT_DIR: relative path -> entry
    initOut,       \* outFs when the run started
    pc,            \* position of main: start, copy, convert, sidebar, done
    xlsxFiles,     \* main's xlsxFiles
    convertFiles,  \* main's convertFiles (files / docxFiles in two variants)
    idx,           \* number of iterations done of the loop main is in
    ok,            \* main's ok
    fail,          \* main's fail
    log,           \* the lines written to stdout and stderr
    exitCode,      \* -1 while the process runs, then its exit code
    crashed,       \* "none", or the position of main where an error escaped it
    failed,        \* files counted as failed -> the error caught
    writes,        \* output files written in this run: [src, dst, content]
    dispatched,    \* files handed to a converter in this run
    copied,        \* files handed to copyFileSync in this run
    run,           \* 1 for the first run, 2 for the run repeated
    firstRun       \* what the first run left: [init, out, exit, fail], or <<>>

\* The state of one deck conversion (convertPptx / convertPptxToHtml).
VARIABLES
    renderer,      \* "markdown" (convertPptx) or "html" (convertPptxToHtml)
    zipKeys,       \* Object.keys(zip.files), in the archive's order
    zipFiles,      \* zip.files: entry name -> content
    dpc,           \* position of the conversion: open, slides, join, done,
                   \* rejected (the promise rejects), off (none under way)
    slideKeys,     \* the sorted slide entries
    slideIdx,      \* the loop variable i of the loop over slideKeys
    sections,      \* sections (Markdown) / slides (HTML) built so far
    result         \* the value the conversion resolves with

mainVars == <<variant, inputExists, inFiles, outFs, initOut, pc, xlsxFiles,
              convertFiles, idx, ok, fail, log, exitCode, crashed, failed,
              writes, dispatched, copied, run, firstRun>>

\* The state of one call of parseSlideDoc.
VARIABLES
    slideDoc,      \* the parsed slide document
    shapeIdx,      \* shapes of spTree['p:sp'] handled so far
    slideTitle,    \* parseSlideDoc's title
    bodyBlocks,    \* parseSlideDoc's bodyBlocks
    spc,           \* position of the call: start, shapes, returned, threw,
                   \* off (no call under way)
    shapeUse,      \* what each handled shape was used for: title, body, none
    jsTitle,       \* title of convert.js's parseSlideDoc on the same document
    jsBodyBlocks,  \* bodyBlocks of convert.js's parseSlideDoc
    jsThrew        \* whether convert.js's parseSlideDoc threw

\* The state of one call of parseSlide, with the media cache and the
\* relationship map convertPptxToHtml builds for it.
VARIABLES
    zipMedia,      \* the archive's entries that are no slide parts
    relTargets,    \* the slide's manifest: relationship id -> Target
    textShapes,    \* spTree['p:sp'] of the slide
    pics,          \* spTree['p:pic'] of the slide
    mediaCache,    \* convertPptxToHtml's mediaCache
    rels,          \* convertPptxToHtml's rels for the slide
    picIdx,        \* pictures handled so far
    htmlShapes,    \* parseSlide's shapes
    qpc            \* position: media, rels, texts, pics, returned, off

deckVars == <<renderer, zipKeys, zipFiles, dpc, slideKeys, slideIdx, sections,
              result>>

picVars == <<zipMedia, relTargets, textShapes, pics, mediaCache, rels, picIdx,
             htmlShapes, qpc>>

\* The state of one generated viewer page, open in a browser.
VARIABLES
    wrapsLen,      \* wraps.length: the number of .swrap containers
    active,        \* the containers that have the class active
    viewIdx,       \* the script's idx
    prevDisabled,  \* the disabled attribute of #prev
    nextDisabled,  \* the disabled attribute of #next
    ctr,           \* the two numbers of the text of #ctr
    area,          \* the size the browser gives #area
    scaledFor,     \* the size scale() last fitted the slides to
    lastStep,      \* the last input: [input, from, d, threw]
    steps,         \* inputs handled so far
    vpc            \* open, or off (no viewer)

viewerVars == <<wrapsLen, active, viewIdx, prevDisabled, nextDisabled, ctr,
                area, scaledFor, lastStep, steps, vpc>>

slideVars == <<slideDoc, shapeIdx, slideTitle, bodyBlocks, spc, shapeUse,
               jsTitle, jsBodyBlocks, jsThrew>>

\* The slide dimensions convertPptxToHtml reads from the presentation.
VARIABLES
    presentation,  \* ppt/presentation.xml: [file, sldSz, cx, cy]
    slideW,        \* convertPptxToHtml's slideW
    slideH,        \* convertPptxToHtml's slideH
    zpc            \* position: start, read, off

dimVars == <<presentation, slideW, slideH, zpc>>

\* The directory arguments of a run and the one disk they name.
VARIABLES
    INPUT_DIR,     \* path.resolve(process.argv[2]), as a sequence of names
    OUTPUT_DIR,    \* path.resolve(process.argv[3]), as a sequence of names
    disk,          \* the disk: absolute path -> entry
    diskAtStart    \* disk when the run started

dirVars == <<INPUT_DIR, OUTPUT_DIR, disk, diskAtStart>>

besideMain   == <<deckVars, slideVars, picVars, viewerVars, dimVars, dirVars>>
besideDeck   == <<mainVars, slideVars, picVars, viewerVars, dimVars, dirVars>>
besideSlide  == <<mainVars, deckVars, picVars, viewerVars, dimVars, dirVars>>
besidePic    == <<mainVars, deckVars, slideVars, viewerVars, dimVars, dirVars>>
besideViewer == <<mainVars, deckVars, slideVars, picVars, dimVars, dirVars>>
besideDims   == <<mainVars, deckVars, slideVars, picVars, viewerVars, dirVars>>
besideDirs   == <<deckVars, slideVars, picVars, viewerVars, dimVars>>

vars == <<mainVars, deckVars, slideVars, picVars, viewerVars, dimVars, dirVars>>

\* ------------------------------------------------------------ orchestrator
IsLockFile(path) == StartsWith(Basename(path), LOCK_PREFIX)

LowerExt(path) == ToLowerCase(Extname(Basename(path)))

\* The filter main applies to walk(INPUT_DIR).
Recognized(v, path) ==
    CASE v \in {"md", "html"} ->
            /\ ~IsLockFile(path)
            /\ LowerExt(path) \in {EXT_DOCX, EXT_PPTX, EXT_XLSX}
      [] v = "docx" ->
            /\ ~IsLockFile(path)
            /\ LowerExt(path) = EXT_DOCX
      [] v = "js" ->
            LowerExt(path) \in {EXT_DOCX, EXT_PPTX}

IsXlsx(path) == LowerExt(path) = EXT_XLSX

FilterRecognized(v, listing) ==
    LET Keep(p) == Recognized(v, p) IN SelectSeq(listing, Keep)

FilterXlsx(listing) ==
    LET Keep(p) == IsXlsx(p) IN SelectSeq(listing, Keep)

FilterConvert(listing) ==
    LET Keep(p) == ~IsXlsx(p) IN SelectSeq(listing, Keep)

\* convertDocx / convertPptx / convertPptxToHtml seen from main: the body
\* made from the file's data, or an error when the document is malformed.
ConvertDocx(content) ==
    [threw |-> content.corrupt, body |-> [conv |-> "docx", of |-> content.data]]

ConvertPptx(content) ==
    [threw |-> content.corrupt, body |-> [conv |-> "pptx", of |-> content.data]]

ConvertPptxToHtml(content, title) ==
    [threw |-> content.corrupt,
     body  |-> [kind |-> "html", title |-> title, deck |-> content.data]]

\* frontmatter + body + '\n'
Frontmatter(title, baseName, body) ==
    [kind |-> "md", title |-> EscapeQuotes(title), source |-> baseName,
     body |-> body]

\* The iframe wrapper page of a deck.
IframeBody(htmlRel) ==
    [conv |-> "iframe",
     src  |-> <<"/", "s", "l", "i", "d", "e", "s">> \o JoinUrl(htmlRel)]

ErrConvert(path) == [code |-> "EDOCUMENT", at |-> path]
ErrIsDir(path)   == [code |-> "EISDIR", at |-> path]
ErrMkdir(path)   == [code |-> "EEXIST", at |-> path]

\* The title main gives a file.
TitleOf(v, filePath) ==
    IF v = "docx"
    THEN BasenameExt(filePath, Extname(Basename(filePath)))
    ELSE BasenameExt(filePath, LowerExt(filePath))

\* The Markdown path main computes for a file, relative to OUTPUT_DIR.
OutRel(v, filePath) ==
    CASE v \in {"md", "js"} ->
            ReplacePathExtI(filePath, {EXT_DOCX, EXT_PPTX}, EXT_MD)
      [] v = "docx" ->
            SlugifyRelativePath(ReplacePathExtI(filePath, {EXT_DOCX}, EXT_MD))
      [] v = "html" ->
            IF LowerExt(filePath) = EXT_PPTX
            THEN ReplacePathExtI(filePath, {EXT_PPTX}, EXT_MD)
            ELSE ReplacePathExtI(filePath, {EXT_DOCX}, EXT_MD)

\* The viewer path of a deck in the HTML variant, relative to OUTPUT_DIR.
HtmlRel(filePath) == ReplacePathExtI(filePath, {EXT_PPTX}, EXT_HTML)

HtmlOutPath(filePath) == <<PUBLIC, SLIDES>> \o HtmlRel(filePath)

IsHtmlDeck(v, filePath) == v = "html" /\ LowerExt(filePath) = EXT_PPTX

\* The directories main creates for a file before its try block, in order.
DirsFor(v, filePath) ==
    IF IsHtmlDeck(v, filePath)
    THEN <<Dirname(HtmlOutPath(filePath)), Dirname(OutRel(v, filePath))>>
    ELSE <<Dirname(OutRel(v, filePath))>>

\* The mkdirp calls before the try block: the tree they leave and whether
\* one of them threw.
RECURSIVE MkdirpAll(_, _)
MkdirpAll(fs, dirs) ==
    IF dirs = <<>> THEN [threw |-> FALSE, fs |-> fs]
    ELSE IF MkdirpThrows(fs, Head(dirs))
         THEN [threw |-> TRUE, fs |-> fs, err |-> ErrMkdir(Head(dirs))]
         ELSE MkdirpAll(Mkdirp(fs, Head(dirs)), Tail(dirs))

\* The try block of one loop iteration: the tree it leaves, the output
\* files it wrote, and the error it threw, if any.
TryBlock(v, fs, filePath, content) ==
    LET title    == TitleOf(v, filePath)
        baseName == Basename(filePath)
        outPath  == OutRel(v, filePath)
    IN  IF IsHtmlDeck(v, filePath)
        THEN LET html == ConvertPptxToHtml(content, title)
                 hOut == HtmlOutPath(filePath)
                 fs1  == WriteFile(fs, hOut, html.body)
                 md   == Frontmatter(title, baseName, IframeBody(HtmlRel(filePath)))
             IN  IF html.threw
                 THEN [threw |-> TRUE, err |-> ErrConvert(filePath),
                       fs |-> fs, wrote |-> {}]
                 ELSE IF WriteThrows(fs, hOut)
                 THEN [threw |-> TRUE, err |-> ErrIsDir(hOut),
                       fs |-> fs, wrote |-> {}]
                 ELSE IF WriteThrows(fs1, outPath)
                 THEN [threw |-> TRUE, err |-> ErrIsDir(outPath),
                       fs |-> fs1, wrote |-> {hOut}]
                 ELSE [threw |-> FALSE,
                       fs |-> WriteFile(fs1, outPath, md),
                       wrote |-> {hOut, outPath}]
        ELSE LET res == IF LowerExt(filePath) = EXT_DOCX \/ v \in {"docx", "html"}
                        THEN ConvertDocx(content)
                        ELSE ConvertPptx(content)
                 md  == Frontmatter(title, baseName, res.body)
             IN  IF res.threw
                 THEN [threw |-> TRUE, err |-> ErrConvert(filePath),
                       fs |-> fs, wrote |-> {}]
                 ELSE IF WriteThrows(fs, outPath)
                 THEN [threw |-> TRUE, err |-> ErrIsDir(outPath),
                       fs |-> fs, wrote |-> {}]
                 ELSE [threw |-> FALSE,
                       fs |-> WriteFile(fs, outPath, md),
                       wrote |-> {outPath}]


\* ------------------------------------------------------------------ sidebar
\* The order String.prototype.localeCompare gives the characters of the
\* model: punctuation, then digits, then letters, a letter's two cases
\* together.
CollationOrder ==
    <<"_", "-", ".", "~", "$", "0", "1", "2", "3", "4", "5", "6", "7", "8", "9",
      "a", "b", "c", "d", "e", "f", "g", "h", "i", "j", "k", "l", "m", "n", "o",
      "p", "q", "r", "s", "t", "u", "v", "w", "x", "y", "z">>

CollationRank(c) ==
    CHOOSE i \in 1..Len(CollationOrder) : CollationOrder[i] = LowerChar(c)

\* a.localeCompare(b) < 0: the first difference of letters decides; when
\* the names differ in case only, the lower-case letter comes first.
RECURSIVE PrimaryLess(_, _)
PrimaryLess(a, b) ==
    IF b = <<>> THEN FALSE
    ELSE IF a = <<>> THEN TRUE
    ELSE IF CollationRank(Head(a)) # CollationRank(Head(b))
         THEN CollationRank(Head(a)) < CollationRank(Head(b))
         ELSE PrimaryLess(Tail(a), Tail(b))

RECURSIVE CaseLess(_, _)
CaseLess(a, b) ==
    IF a = <<>> \/ b = <<>> THEN FALSE
    ELSE IF Head(a) # Head(b) THEN Head(a) = LowerChar(Head(a))
    ELSE CaseLess(Tail(a), Tail(b))

LocaleLess(a, b) ==
    \/ PrimaryLess(a, b)
    \/ (~PrimaryLess(b, a) /\ CaseLess(a, b))

\* A comparator that goes by the name alone.
EntryBeforeByName(fs, a, b) == LocaleLess(Basename(a), Basename(b))

\* The comparator of buildItems: directories first, then by name.
EntryBefore(fs, a, b) ==
    IF (fs[a].kind = "dir") # (fs[b].kind = "dir")
    THEN fs[a].kind = "dir"
    ELSE LocaleLess(Basename(a), Basename(b))

\* entries.sort(comparator), on the entries of one directory.
RECURSIVE SortEntries(_, _)
SortEntries(fs, S) ==
    IF S = {} THEN <<>>
    ELSE LET m == CHOOSE x \in S : \A y \in S \ {x} : EntryBefore(fs, x, y)
         IN  <<m>> \o SortEntries(fs, S \ {m})

\* The names buildItems leaves out.
SidebarSkipped(v) ==
    {SIDEBAR_TS, INDEX_MD} \cup (IF v = "html" THEN {PUBLIC} ELSE {})

EntriesOf(fs, dir) ==
    {p \in DOMAIN fs : Len(p) = Len(dir) + 1 /\ SubSeq(p, 1, Len(dir)) = dir}

KeepSuffix(s, suf) == s

StripSuffix(s, suf) == SubSeq(s, 1, Len(s) - Len(suf))

\* buildItems(dir, urlBase)
RECURSIVE BuildItems(_, _, _, _)
RECURSIVE BuildListed(_, _, _, _)
BuildListed(fs, v, entries, urlBase) ==
    IF entries = <<>> THEN <<>>
    ELSE LET entry   == Head(entries)
             name    == Basename(entry)
             urlPath == urlBase \o name
             item    ==
                IF fs[entry].kind = "dir"
                THEN << [text |-> name, collapsed |-> TRUE,
                         items |-> BuildItems(fs, v, entry, urlPath \o <<"/">>)] >>
                ELSE IF EndsWith(name, EXT_MD)
                THEN << [text |-> StripSuffix(name, EXT_MD),
                         link |-> StripSuffix(urlPath, EXT_MD)] >>
                ELSE IF v # "js" /\ EndsWith(name, EXT_XLSX)
                THEN << [text |-> <<"download", " ">> \o StripSuffix(name, EXT_XLSX),
                         link |-> urlPath] >>
                ELSE <<>>
         IN  item \o BuildListed(fs, v, Tail(entries), urlBase)

BuildItems(fs, v, dir, urlBase) ==
    BuildListed(fs, v,
                SortEntries(fs, {p \in EntriesOf(fs, dir) :
                                     Basename(p) \notin SidebarSkipped(v)}),
                urlBase)

\* buildSidebar(outDir)
BuildSidebar(fs, v) ==
    [kind |-> "sidebar", items |-> BuildItems(fs, v, <<>>, <<"/">>)]

\* What the output directory may hold when the sidebar is built over it:
\* files left by earlier runs or put there by hand, below the directories
\* that lead to them.
A_MD    == <<"a">> \o EXT_MD
UP_A_MD == <<"A">> \o EXT_MD
B_MD    == <<"b">> \o EXT_MD
SUB     == <<"s", "u", "b">>

TreeFiles ==
    { <<UP_A_MD>>, <<A_XLSX>>, <<A_TXT>>, <<INDEX_MD>>, <<SUB, B_MD>>,
      <<SUB, A_XLSX>>, <<DIR_D, B_MD>>, <<PUBLIC, B_MD>> }

TreeOf(files) ==
    [p \in files \cup UNION {Prefixes(Dirname(q)) : q \in files} |->
        IF p \in files THEN [kind |-> "stale"] ELSE DirEntry]

OutputTrees == {TreeOf(files) : files \in SUBSET TreeFiles}

\* ------------------------------------------------------------------ actions
MainInit ==
    /\ variant \in Variants
    /\ inputExists \in BOOLEAN
    /\ inFiles \in (IF inputExists THEN InputDirs ELSE {EmptyFs})
    /\ outFs \in StaleOutputs
    /\ initOut = outFs
    /\ pc = "start"
    /\ xlsxFiles = <<>>
    /\ convertFiles = <<>>
    /\ idx = 0
    /\ ok = 0
    /\ fail = 0
    /\ log = <<>>
    /\ exitCode = -1
    /\ crashed = "none"
    /\ failed = EmptyFs
    /\ writes = {}
    /\ dispatched = {}
    /\ copied = {}
    /\ run = 1
    /\ firstRun = <<>>

\* A main that reports failed files through the exit code.
ExitCodeCountingFailures(failCount) == IF failCount > 0 THEN 1 ELSE 0

\* main returns: the process ends with the implicit exit code 0, whatever
\* the number of files that failed.
ExitCodeOfRun(failCount) == 0

\* main().catch: an error that escapes main is printed and the process
\* exits with 1.
Crash(err, fs) ==
    /\ outFs' = fs
    /\ log' = Append(log, [line |-> "error", msg |-> err])
    /\ exitCode' = 1
    /\ crashed' = pc
    /\ pc' = "done"

\* main up to its first loop: the input check, the output directory, the
\* walk, the filter and the early return.
Start ==
    /\ UNCHANGED besideMain
    /\ pc = "start"
    /\ UNCHANGED <<variant, inputExists, inFiles, initOut, idx, ok, fail,
                   failed, writes, dispatched, copied, run, firstRun>>
    /\ IF ~inputExists
       THEN /\ log' = Append(log, [line |-> "input-not-found"])
            /\ exitCode' = 1
            /\ pc' = "done"
            /\ UNCHANGED <<outFs, xlsxFiles, convertFiles, crashed>>
       ELSE \E listing \in Walk(DOMAIN inFiles, <<>>) :
              LET allFiles == FilterRecognized(variant, listing)
                  xlsx     == IF variant \in {"md", "html"}
                              THEN FilterXlsx(allFiles) ELSE <<>>
                  conv     == FilterConvert(allFiles)
              IN  /\ outFs' = IF variant = "docx" THEN EmptyFs ELSE outFs
                  /\ UNCHANGED crashed
                  /\ IF allFiles = <<>>
                     THEN /\ log' = Append(log, [line |-> "none-found"])
                          /\ exitCode' = 0
                          /\ pc' = "done"
                          /\ UNCHANGED <<xlsxFiles, convertFiles>>
                     ELSE /\ xlsxFiles' = xlsx
                          /\ convertFiles' = conv
                          /\ exitCode' = -1
                          /\ log' = IF xlsx = <<>>
                                    THEN Append(log, [line |-> "found",
                                                      n |-> Len(conv)])
                                    ELSE log
                          /\ pc' = IF xlsx # <<>> THEN "copy"
                                   ELSE IF conv # <<>> THEN "convert"
                                   ELSE "sidebar"

\* A copy loop that drops the directory part of the relative path.
XlsxOutPathFlat(filePath) == <<Basename(filePath)>>

\* path.join(OUTPUT_DIR, path.relative(INPUT_DIR, filePath)), relative to
\* OUTPUT_DIR.
XlsxOutPath(filePath) == filePath

\* One iteration of the loop that copies the spreadsheets.
CopyOne ==
    /\ UNCHANGED besideMain
    /\ pc = "copy"
    /\ idx < Len(xlsxFiles)
    /\ UNCHANGED <<variant, inputExists, inFiles, initOut, xlsxFiles,
                   convertFiles, ok, fail, failed, dispatched, run, firstRun>>
    /\ LET filePath == xlsxFiles[idx + 1]
           outPath  == XlsxOutPath(filePath)
           made     == MkdirpAll(outFs, <<Dirname(outPath)>>)
           last     == idx + 1 = Len(xlsxFiles)
       IN  /\ copied' = copied \cup {filePath}
           /\ IF made.threw
              THEN /\ Crash(made.err, made.fs)
                   /\ UNCHANGED <<idx, writes>>
              ELSE IF WriteThrows(made.fs, outPath)
              THEN /\ Crash(ErrIsDir(outPath), made.fs)
                   /\ UNCHANGED <<idx, writes>>
              ELSE /\ outFs' = WriteFile(made.fs, outPath, inFiles[filePath])
                   /\ writes' = writes \cup {[src |-> filePath, dst |-> outPath,
                                               content |-> inFiles[filePath]]}
                   /\ log' = IF last
                             THEN log \o << [line |-> "copied", file |-> filePath],
                                            [line |-> "found",
                                             n |-> Len(convertFiles)] >>
                             ELSE Append(log, [line |-> "copied", file |-> filePath])
                   /\ idx' = IF last THEN 0 ELSE idx + 1
                   /\ pc' = IF ~last THEN "copy"
                            ELSE IF convertFiles # <<>> THEN "convert"
                            ELSE "sidebar"
                   /\ UNCHANGED <<exitCode, crashed>>

\* One iteration of the loop over the convertible files.
ConvertOne ==
    /\ UNCHANGED besideMain
    /\ pc = "convert"
    /\ idx < Len(convertFiles)
    /\ UNCHANGED <<variant, inputExists, inFiles, initOut, xlsxFiles,
                   convertFiles, copied, run, firstRun>>
    /\ LET filePath == convertFiles[idx + 1]
           made     == MkdirpAll(outFs, DirsFor(variant, filePath))
           res      == TryBlock(variant, made.fs, filePath, inFiles[filePath])
           last     == idx + 1 = Len(convertFiles)
       IN  IF made.threw
           THEN /\ Crash(made.err, made.fs)
                /\ UNCHANGED <<idx, ok, fail, failed, writes, dispatched>>
           ELSE /\ dispatched' = dispatched \cup {filePath}
                /\ outFs' = res.fs
                /\ writes' = writes \cup
                                {[src |-> filePath, dst |-> d,
                                  content |-> res.fs[d]] : d \in res.wrote}
                /\ IF res.threw
                   THEN /\ fail' = fail + 1
                        /\ failed' = (filePath :> res.err) @@ failed
                        /\ log' = Append(log, [line |-> "failed",
                                               file |-> filePath,
                                               msg |-> res.err])
                        /\ UNCHANGED ok
                   ELSE /\ ok' = ok + 1
                        /\ log' = Append(log, [line |-> "ok", file |-> filePath])
                        /\ UNCHANGED <<fail, failed>>
                /\ idx' = IF last THEN 0 ELSE idx + 1
                /\ pc' = IF last THEN "sidebar" ELSE "convert"
                /\ UNCHANGED <<exitCode, crashed>>

\* The end of main: the sidebar (not in the .docx-only variant) and the
\* summary; main returns and the process ends with exit code 0.
Finish ==
    /\ UNCHANGED besideMain
    /\ pc = "sidebar"
    /\ UNCHANGED <<variant, inputExists, inFiles, initOut, xlsxFiles,
                   convertFiles, idx, ok, fail, failed, dispatched, copied,
                   run, firstRun>>
    /\ IF variant = "docx"
       THEN /\ log' = Append(log, [line |-> "done", ok |-> ok, fail |-> fail])
            /\ exitCode' = ExitCodeOfRun(fail)
            /\ pc' = "done"
            /\ UNCHANGED <<outFs, writes, crashed>>
       ELSE IF WriteThrows(outFs, <<SIDEBAR_TS>>)
       THEN /\ Crash(ErrIsDir(<<SIDEBAR_TS>>), outFs)
            /\ UNCHANGED writes
       ELSE /\ outFs' = WriteFile(outFs, <<SIDEBAR_TS>>,
                                  BuildSidebar(outFs, variant))
            /\ writes' = writes \cup {[src |-> <<>>, dst |-> <<SIDEBAR_TS>>,
                                        content |-> BuildSidebar(outFs, variant)]}
            /\ log' = Append(log, [line |-> "done", ok |-> ok, fail |-> fail])
            /\ exitCode' = ExitCodeOfRun(fail)
            /\ pc' = "done"
            /\ UNCHANGED crashed

\* The operator empties the output directory and runs the converter again
\* on the same input.
Restart ==
    /\ UNCHANGED besideMain
    /\ pc = "done"
    /\ run = 1
    /\ firstRun' = [init |-> initOut, out |-> outFs, exit |-> exitCode,
                     fail |-> fail]
    /\ run' = 2
    /\ outFs' = EmptyFs
    /\ initOut' = EmptyFs
    /\ pc' = "start"
    /\ xlsxFiles' = <<>>
    /\ convertFiles' = <<>>
    /\ idx' = 0
    /\ ok' = 0
    /\ fail' = 0
    /\ log' = <<>>
    /\ exitCode' = -1
    /\ crashed' = "none"
    /\ failed' = EmptyFs
    /\ writes' = {}
    /\ dispatched' = {}
    /\ copied' = {}
    /\ UNCHANGED <<variant, inputExists, inFiles>>

\* ------------------------------------------------- the directory arguments
\* main over one disk: INPUT_DIR and OUTPUT_DIR are two paths of the same
\* tree, and OUTPUT_DIR may be INPUT_DIR, a directory above it or one below.
W       == <<"w">>
IN_DIR  == <<"i", "n">>
OUT_DIR == <<"o", "u", "t">>

Below(dir, p) == Len(p) > Len(dir) /\ SubSeq(p, 1, Len(dir)) = dir

\* fs.existsSync(p)
ExistsSync(fs, p) == p \in DOMAIN fs

\* fs.rmSync(dir, {recursive: true})
RmSync(fs, dir) ==
    [p \in {q \in DOMAIN fs : q # dir /\ ~Below(dir, q)} |-> fs[p]]

\* The tree below dir, by paths relative to dir.
TreeBelow(fs, dir) ==
    [r \in {SubSeq(p, Len(dir) + 1, Len(p)) :
                p \in {q \in DOMAIN fs : Below(dir, q)}} |-> fs[dir \o r]]

\* fs with the tree below dir replaced by sub.
WithTreeBelow(fs, dir, sub) ==
    [p \in {q \in DOMAIN fs : ~Below(dir, q)} \cup {dir \o r : r \in DOMAIN sub} |->
        IF Below(dir, p) THEN sub[SubSeq(p, Len(dir) + 1, Len(p))] ELSE fs[p]]

\* The files below dir, by paths relative to dir.
FilesBelow(fs, dir) ==
    {r \in DOMAIN TreeBelow(fs, dir) : TreeBelow(fs, dir)[r].kind # "dir"}

ErrNoEnt(path) == [code |-> "ENOENT", at |-> path]

\* The files the input directory may hold, and the places OUTPUT_DIR may
\* name: apart from INPUT_DIR, INPUT_DIR itself, above it, below it.
DiskFiles ==
    { <<A_DOCX>>, <<A_PPTX>>, <<A_XLSX>>, <<A_MD>>, <<SIDEBAR_TS>>,
      <<DIR_D, A_DOCX>> }

OutputDirs == { <<W, OUT_DIR>>, <<W, IN_DIR>>, <<W>>, <<W, IN_DIR, DIR_D>> }

DiskOf(dir, files) ==
    [p \in Prefixes(dir) \cup UNION {Prefixes(dir \o r) : r \in files} |->
        IF \E r \in files : p = dir \o r
        THEN [kind |-> "src", data |-> p, corrupt |-> FALSE]
        ELSE DirEntry]

DirsInit ==
    /\ variant \in Variants
    /\ INPUT_DIR = <<W, IN_DIR>>
    /\ OUTPUT_DIR \in OutputDirs
    /\ \E T \in SUBSET DiskFiles :
          /\ Cardinality(T) <= MaxFiles
          /\ disk = DiskOf(INPUT_DIR, T)
    /\ diskAtStart = disk
    /\ inputExists = TRUE
    /\ inFiles = EmptyFs
    /\ outFs = EmptyFs
    /\ initOut = EmptyFs
    /\ pc = "start"
    /\ xlsxFiles = <<>>
    /\ convertFiles = <<>>
    /\ idx = 0
    /\ ok = 0
    /\ fail = 0
    /\ log = <<>>
    /\ exitCode = -1
    /\ crashed = "none"
    /\ failed = EmptyFs
    /\ writes = {}
    /\ dispatched = {}
    /\ copied = {}
    /\ run = 1
    /\ firstRun = <<>>

\* No run over the one disk is under way.
DirsOff ==
    /\ INPUT_DIR = <<>>
    /\ OUTPUT_DIR = <<>>
    /\ disk = EmptyFs
    /\ diskAtStart = EmptyFs

\* main().catch over the one disk.
CrashOnDisk(err, fs) ==
    /\ disk' = fs
    /\ log' = Append(log, [line |-> "error", msg |-> err])
    /\ exitCode' = 1
    /\ crashed' = pc
    /\ pc' = "done"

\* main up to its first loop: the input check, the removal of OUTPUT_DIR in
\* the .docx-only variant, mkdirp(OUTPUT_DIR), the walk and the filter.
StartOnDisk ==
    /\ UNCHANGED besideDirs
    /\ pc = "start"
    /\ UNCHANGED <<variant, inputExists, inFiles, outFs, initOut, idx, ok,
                   fail, failed, writes, dispatched, copied, run, firstRun,
                   INPUT_DIR, OUTPUT_DIR, diskAtStart>>
    /\ IF ~ExistsSync(disk, INPUT_DIR)
       THEN /\ log' = Append(log, [line |-> "input-not-found"])
            /\ exitCode' = 1
            /\ pc' = "done"
            /\ UNCHANGED <<disk, xlsxFiles, convertFiles, crashed>>
       ELSE LET cleared == IF variant = "docx" /\ ExistsSync(disk, OUTPUT_DIR)
                           THEN RmSync(disk, OUTPUT_DIR)
                           ELSE disk
                made    == Mkdirp(cleared, OUTPUT_DIR)
            IN  IF MkdirpThrows(cleared, OUTPUT_DIR)
                THEN /\ CrashOnDisk(ErrMkdir(OUTPUT_DIR), cleared)
                     /\ UNCHANGED <<xlsxFiles, convertFiles>>
                ELSE IF ~ExistsSync(made, INPUT_DIR)
                THEN /\ CrashOnDisk(ErrNoEnt(INPUT_DIR), made)
                     /\ UNCHANGED <<xlsxFiles, convertFiles>>
                ELSE \E listing \in Walk(FilesBelow(made, INPUT_DIR), <<>>) :
                       LET allFiles == FilterRecognized(variant, listing)
                           xlsx     == IF variant \in {"md", "html"}
                                       THEN FilterXlsx(allFiles) ELSE <<>>
                           conv     == FilterConvert(allFiles)
                       IN  /\ disk' = made
                           /\ UNCHANGED crashed
                           /\ IF allFiles = <<>>
                              THEN /\ log' = Append(log, [line |-> "none-found"])
                                   /\ exitCode' = 0
                                   /\ pc' = "done"
                                   /\ UNCHANGED <<xlsxFiles, convertFiles>>
                              ELSE /\ xlsxFiles' = xlsx
                                   /\ convertFiles' = conv
                                   /\ exitCode' = -1
                                   /\ log' = IF xlsx = <<>>
                                             THEN Append(log, [line |-> "found",
                                                               n |-> Len(conv)])
                                             ELSE log
                                   /\ pc' = IF xlsx # <<>> THEN "copy"
                                            ELSE IF conv # <<>> THEN "convert"
                                            ELSE "sidebar"

\* One iteration of the loop that copies the spreadsheets, over the one
\* disk.
CopyOnDisk ==
    /\ UNCHANGED besideDirs
    /\ pc = "copy"
    /\ idx < Len(xlsxFiles)
    /\ UNCHANGED <<variant, inputExists, inFiles, outFs, initOut, xlsxFiles,
                   convertFiles, ok, fail, failed, writes, dispatched, copied,
                   run, firstRun, INPUT_DIR, OUTPUT_DIR, diskAtStart>>
    /\ LET filePath == xlsxFiles[idx + 1]
           outPath  == XlsxOutPath(filePath)
           out      == TreeBelow(disk, OUTPUT_DIR)
           made     == MkdirpAll(out, <<Dirname(outPath)>>)
           onDisk   == WithTreeBelow(disk, OUTPUT_DIR, made.fs)
           last     == idx + 1 = Len(xlsxFiles)
       IN  IF made.threw
           THEN /\ CrashOnDisk(made.err, onDisk)
                /\ UNCHANGED idx
           ELSE IF ~ExistsSync(onDisk, INPUT_DIR \o filePath)
           THEN /\ CrashOnDisk(ErrNoEnt(filePath), onDisk)
                /\ UNCHANGED idx
           ELSE IF WriteThrows(made.fs, outPath)
           THEN /\ CrashOnDisk(ErrIsDir(outPath), onDisk)
                /\ UNCHANGED idx
           ELSE /\ disk' = WithTreeBelow(disk, OUTPUT_DIR,
                               WriteFile(made.fs, outPath,
                                         onDisk[INPUT_DIR \o filePath]))
                /\ log' = IF last
                          THEN log \o << [line |-> "copied", file |-> filePath],
                                         [line |-> "found",
                                          n |-> Len(convertFiles)] >>
                          ELSE Append(log, [line |-> "copied", file |-> filePath])
                /\ idx' = IF last THEN 0 ELSE idx + 1
                /\ pc' = IF ~last THEN "copy"
                         ELSE IF convertFiles # <<>> THEN "convert"
                         ELSE "sidebar"
                /\ UNCHANGED <<exitCode, crashed>>

\* The try block of one iteration over the one disk: the converter reads
\* the file at its input path when the iteration runs.
TryBlockOnDisk(v, fs, out, filePath) ==
    IF /\ ExistsSync(fs, INPUT_DIR \o filePath)
       /\ fs[INPUT_DIR \o filePath].kind = "src"
    THEN TryBlock(v, out, filePath, fs[INPUT_DIR \o filePath])
    ELSE [threw |-> TRUE, err |-> ErrNoEnt(filePath), fs |-> out, wrote |-> {}]

\* One iteration of the loop over the convertible files, over the one disk.
ConvertOnDisk ==
    /\ UNCHANGED besideDirs
    /\ pc = "convert"
    /\ idx < Len(convertFiles)
    /\ UNCHANGED <<variant, inputExists, inFiles, outFs, initOut, xlsxFiles,
                   convertFiles, failed, writes, dispatched, copied, run,
                   firstRun, INPUT_DIR, OUTPUT_DIR, diskAtStart>>
    /\ LET filePath == convertFiles[idx + 1]
           out      == TreeBelow(disk, OUTPUT_DIR)
           made     == MkdirpAll(out, DirsFor(variant, filePath))
           onDisk   == WithTreeBelow(disk, OUTPUT_DIR, made.fs)
           res      == TryBlockOnDisk(variant, onDisk, made.fs, filePath)
           last     == idx + 1 = Len(convertFiles)
       IN  IF made.threw
           THEN /\ CrashOnDisk(made.err, onDisk)
                /\ UNCHANGED <<idx, ok, fail>>
           ELSE /\ disk' = WithTreeBelow(disk, OUTPUT_DIR, res.fs)
                /\ IF res.threw
                   THEN /\ fail' = fail + 1
                        /\ log' = Append(log, [line |-> "failed",
                                               file |-> filePath,
                                               msg |-> res.err])
                        /\ UNCHANGED ok
                   ELSE /\ ok' = ok + 1
                        /\ log' = Append(log, [line |-> "ok", file |-> filePath])
                        /\ UNCHANGED fail
                /\ idx' = IF last THEN 0 ELSE idx + 1
                /\ pc' = IF last THEN "sidebar" ELSE "convert"
                /\ UNCHANGED <<exitCode, crashed>>

\* The end of main over the one disk: the sidebar (not in the .docx-only
\* variant) and the summary.
FinishOnDisk ==
    /\ UNCHANGED besideDirs
    /\ pc = "sidebar"
    /\ UNCHANGED <<variant, inputExists, inFiles, outFs, initOut, xlsxFiles,
                   convertFiles, idx, ok, fail, failed, writes, dispatched,
                   copied, run, firstRun, INPUT_DIR, OUTPUT_DIR, diskAtStart>>
    /\ LET out == TreeBelow(disk, OUTPUT_DIR)
       IN  IF variant = "docx"
           THEN /\ log' = Append(log, [line |-> "done", ok |-> ok, fail |-> fail])
                /\ exitCode' = ExitCodeOfRun(fail)
                /\ pc' = "done"
                /\ UNCHANGED <<disk, crashed>>
           ELSE IF WriteThrows(out, <<SIDEBAR_TS>>)
           THEN CrashOnDisk(ErrIsDir(<<SIDEBAR_TS>>), disk)
           ELSE /\ disk' = WithTreeBelow(disk, OUTPUT_DIR,
                               WriteFile(out, <<SIDEBAR_TS>>,
                                         BuildSidebar(out, variant)))
                /\ log' = Append(log, [line |-> "done", ok |-> ok, fail |-> fail])
                /\ exitCode' = ExitCodeOfRun(fail)
                /\ pc' = "done"
                /\ UNCHANGED crashed

\* -------------------------------------------------------------- slide text
\* Array.prototype.join on strings.
RECURSIVE Join(_, _)
Join(strs, sep) ==
    IF strs = <<>> THEN <<>>
    ELSE IF Len(strs) = 1 THEN strs[1]
    ELSE strs[1] \o sep \o Join(Tail(strs), sep)

\* String.prototype.split on a one-character separator.
RECURSIVE Split(_, _)
Split(s, c) ==
    LET at == {k \in 1..Len(s) : s[k] = c}
    IN  IF at = {} THEN <<s>>
        ELSE LET k == CHOOSE x \in at : \A y \in at : x <= y
             IN  <<SubSeq(s, 1, k - 1)>> \o Split(SubSeq(s, k + 1, Len(s)), c)

\* String.prototype.trim
RECURSIVE Trim(_)
Trim(s) ==
    IF s = <<>> THEN <<>>
    ELSE IF Head(s) \in Whitespace THEN Trim(Tail(s))
    ELSE IF s[Len(s)] \in Whitespace THEN Trim(SubSeq(s, 1, Len(s) - 1))
    ELSE s

\* String.prototype.repeat for a count that is no negative number.
RECURSIVE Repeat(_, _)
Repeat(s, n) == IF n <= 0 THEN <<>> ELSE s \o Repeat(s, n - 1)

\* The value of a decimal digit, -1 for any other character.
DigitValue(c) ==
    CASE c = "0" -> 0 [] c = "1" -> 1 [] c = "2" -> 2 [] c = "3" -> 3
      [] c = "4" -> 4 [] c = "5" -> 5 [] c = "6" -> 6 [] c = "7" -> 7
      [] c = "8" -> 8 [] c = "9" -> 9 [] OTHER -> -1

\* parseInt(str, 10): an optional sign, then the longest prefix of digits;
\* NaN when there is no digit.
ParseIntStr(str) ==
    LET neg  == str # <<>> /\ Head(str) = "-"
        body == IF neg THEN Tail(str) ELSE str
        RECURSIVE Digits(_, _)
        Digits(t, acc) ==
            IF t = <<>> \/ DigitValue(Head(t)) < 0 THEN acc
            ELSE Digits(Tail(t), [seen |-> TRUE,
                                  n |-> 10 * acc.n + DigitValue(Head(t))])
        d    == Digits(body, [seen |-> FALSE, n |-> 0])
    IN  [nan |-> ~d.seen, n |-> IF neg THEN 0 - d.n ELSE d.n]

\* str.replace(/\n{3,}/g, '\n\n'): a run of three or more line feeds
\* becomes two.
RECURSIVE CollapseNewlines(_)
CollapseNewlines(s) ==
    IF s = <<>> THEN <<>>
    ELSE IF Head(s) # "\n" THEN <<Head(s)>> \o CollapseNewlines(Tail(s))
    ELSE LET others == {k \in 1..Len(s) : s[k] # "\n"}
             runLen == IF others = {} THEN Len(s)
                       ELSE (CHOOSE x \in others : \A y \in others : x <= y) - 1
         IN  (IF runLen >= 3 THEN <<"\n", "\n">> ELSE SubSeq(s, 1, runLen))
             \o CollapseNewlines(SubSeq(s, runLen + 1, Len(s)))

\* A paragraph node (a:p) as xml2js gives it: the lvl attribute of a:pPr
\* ("" when a:pPr or the attribute is missing) and the a:t texts of its
\* a:r and a:fld children.  An empty <a:p/> is the string '', no object.
Para(lvl, r, fld) == [obj |-> TRUE, lvl |-> lvl, r |-> r, fld |-> fld]

EmptyPara == [obj |-> FALSE, lvl |-> <<>>, r |-> <<>>, fld |-> <<>>]

\* parseParagraph(para)
ParseParagraph(para) ==
    IF ~para.obj THEN [text |-> <<>>, level |-> [nan |-> FALSE, n |-> 0]]
    ELSE [text  |-> Join(para.r \o para.fld, <<>>),
          level |-> IF para.lvl # <<>> THEN ParseIntStr(para.lvl)
                    ELSE [nan |-> FALSE, n |-> 0]]

\* An indent of one space per level.
IndentOfOneSpace(level) == Repeat(<<" ">>, level)

\* '  '.repeat(level) for a level that is a number >= 0.
IndentOf(level) == Repeat(<<" ", " ">>, level)

\* paragraphsToMarkdown(paragraphs): the string returned, or threw when
\* '  '.repeat(level) raises a RangeError (a negative level; NaN counts as 0).
ParagraphsToMarkdown(paragraphs) ==
    LET parsed == [k \in 1..Len(paragraphs) |-> ParseParagraph(paragraphs[k])]
        Blank(p) == Trim(p.text) = <<>>
        Line(p) ==
            IF Blank(p) THEN <<>>
            ELSE IndentOf(IF p.level.nan THEN 0 ELSE p.level.n)
                 \o <<"-", " ">> \o p.text
        lines == [k \in 1..Len(parsed) |-> Line(parsed[k])]
    IN  [threw |-> \E k \in 1..Len(parsed) :
                      /\ ~Blank(parsed[k])
                      /\ ~parsed[k].level.nan
                      /\ parsed[k].level.n < 0,
         s     |-> CollapseNewlines(Join(lines, <<"\n">>))]

\* The paragraphs[] of a text body: lists that differ in what the code
\* tells apart (text, blank text, no text, level, runs and fields).
ParagraphLists ==
    { <<>>,
      <<EmptyPara>>,
      <<Para(<<>>, << <<"a">> >>, <<>>)>>,
      <<Para(<<"2">>, << <<"b">> >>, <<>>)>>,
      <<Para(<<>>, << <<" ">> >>, <<>>)>>,
      <<Para(<<"1">>, << <<"a">> >>, << <<"b">> >>),
        Para(<<"x">>, << <<"b">> >>, <<>>)>>,
      <<Para(<<"-", "1">>, << <<"a">> >>, <<>>)>>,
      <<Para(<<"0">>, << <<"a">> >>, <<>>), EmptyPara, EmptyPara,
        Para(<<>>, << <<" ">> >>, <<>>), Para(<<"1", "0">>, <<>>, << <<"b">> >>)>> }

\* A shape (p:sp): the type attribute of its placeholder ('' without one),
\* its idx attribute (<<>> without one), whether it has a p:txBody, and the
\* paragraphs of the text body.
Shapes ==
    [phType : {"", "title", "ctrTitle", "subTitle", "body"}, phIdx : {<<>>},
     txBody : {TRUE}, paragraphs : ParagraphLists]
    \cup [phType : {"title"}, phIdx : {<<>>}, txBody : {FALSE},
          paragraphs : {<<>>}]
    \cup [phType : {"", "title"}, phIdx : {<<"1">>}, txBody : {TRUE},
          paragraphs : {<<Para(<<>>, << <<"a">> >>, <<>>)>>}]

\* !title
TitleAlwaysFree(title) == TRUE

TitleFree(title) == title = <<>>

\* One iteration of parseSlideDoc's loop over the shapes, on
\* acc = [title, bodyBlocks, threw].
ShapeStep(acc, sp) ==
    LET NonEmpty(t) == t # <<>>
        texts   == SelectSeq([k \in 1..Len(sp.paragraphs) |->
                                ParseParagraph(sp.paragraphs[k]).text], NonEmpty)
        isTitle == sp.phType \in {"title", "ctrTitle", "subTitle"}
        block   == ParagraphsToMarkdown(sp.paragraphs)
    IN  IF ~sp.txBody \/ texts = <<>> THEN acc
        ELSE IF isTitle /\ TitleFree(acc.title)
        THEN [acc EXCEPT !.title = Join(texts, <<" ">>)]
        ELSE IF block.threw THEN [acc EXCEPT !.threw = TRUE]
        ELSE IF Trim(block.s) # <<>>
        THEN [acc EXCEPT !.bodyBlocks = Append(@, block.s)]
        ELSE acc

\* A loop body in which the isBody rule decides whether a shape that is no
\* title is taken as body.
ShapeStepJsByIsBody(acc, sp) ==
    LET NonEmpty(t) == t # <<>>
        texts   == SelectSeq([k \in 1..Len(sp.paragraphs) |->
                                ParseParagraph(sp.paragraphs[k]).text], NonEmpty)
        isTitle == sp.phType \in {"title", "ctrTitle", "subTitle"}
        isBody  == \/ sp.phType = "body"
                   \/ sp.phIdx # <<>>
                   \/ (sp.phType = "" /\ sp.phIdx = <<>>)
        block   == ParagraphsToMarkdown(sp.paragraphs)
    IN  IF ~sp.txBody \/ texts = <<>> THEN acc
        ELSE IF isTitle /\ TitleFree(acc.title)
        THEN [acc EXCEPT !.title = Join(texts, <<" ">>)]
        ELSE IF ~isBody THEN acc
        ELSE IF block.threw THEN [acc EXCEPT !.threw = TRUE]
        ELSE IF Trim(block.s) # <<>>
        THEN [acc EXCEPT !.bodyBlocks = Append(@, block.s)]
        ELSE acc

\* One iteration of the loop of convert.js's parseSlideDoc: isBody is
\* computed from the placeholder's type and idx and never read.
ShapeStepJs(acc, sp) ==
    LET NonEmpty(t) == t # <<>>
        texts   == SelectSeq([k \in 1..Len(sp.paragraphs) |->
                                ParseParagraph(sp.paragraphs[k]).text], NonEmpty)
        isTitle == sp.phType \in {"title", "ctrTitle", "subTitle"}
        isBody  == \/ sp.phType = "body"
                   \/ sp.phIdx # <<>>
                   \/ (sp.phType = "" /\ sp.phIdx = <<>>)
        block   == ParagraphsToMarkdown(sp.paragraphs)
    IN  IF ~sp.txBody \/ texts = <<>> THEN acc
        ELSE IF isTitle /\ acc.title = <<>>
        THEN [acc EXCEPT !.title = Join(texts, <<" ">>)]
        ELSE IF block.threw THEN [acc EXCEPT !.threw = TRUE]
        ELSE IF Trim(block.s) # <<>>
        THEN [acc EXCEPT !.bodyBlocks = Append(@, block.s)]
        ELSE acc

\* A parseSlideDoc that reads the shapes of a p:spTree that is not there.
ParseSlideDocUnguarded(doc) ==
    LET RECURSIVE Fold(_, _)
        Fold(acc, shapes) ==
            IF shapes = <<>> \/ acc.threw THEN acc
            ELSE Fold(ShapeStep(acc, Head(shapes)), Tail(shapes))
        empty == [title |-> <<>>, bodyBlocks |-> <<>>, threw |-> FALSE]
    IN  IF ~doc.spTree THEN [empty EXCEPT !.threw = TRUE]
        ELSE Fold(empty, doc.shapes)

\* parseSlideDoc(slideDoc): [title, bodyBlocks, threw].
ParseSlideDoc(doc) ==
    LET RECURSIVE Fold(_, _)
        Fold(acc, shapes) ==
            IF shapes = <<>> \/ acc.threw THEN acc
            ELSE Fold(ShapeStep(acc, Head(shapes)), Tail(shapes))
        empty == [title |-> <<>>, bodyBlocks |-> <<>>, threw |-> FALSE]
    IN  IF ~doc.spTree THEN empty ELSE Fold(empty, doc.shapes)

\* The slide documents: with or without a p:spTree, and at most MaxShapes
\* shapes.
SlideDocs ==
    {[spTree |-> FALSE, shapes |-> <<>>]}
    \cup {[spTree |-> TRUE, shapes |-> shapes] :
            shapes \in UNION {[1..n -> Shapes] : n \in 0..MaxShapes}}

SlideInit ==
    /\ slideDoc \in SlideDocs
    /\ shapeIdx = 0
    /\ slideTitle = <<>>
    /\ bodyBlocks = <<>>
    /\ spc = "start"
    /\ shapeUse = <<>>
    /\ jsTitle = <<>>
    /\ jsBodyBlocks = <<>>
    /\ jsThrew = FALSE

\* No call of parseSlideDoc is under way.
SlideOff ==
    /\ slideDoc = [spTree |-> FALSE, shapes |-> <<>>]
    /\ shapeIdx = 0
    /\ slideTitle = <<>>
    /\ bodyBlocks = <<>>
    /\ spc = "off"
    /\ shapeUse = <<>>
    /\ jsTitle = <<>>
    /\ jsBodyBlocks = <<>>
    /\ jsThrew = FALSE

\* The lookup of p:sld / p:cSld / p:spTree: without it the call returns an
\* empty extraction.
FindSpTree ==
    /\ UNCHANGED besideSlide
    /\ spc = "start"
    /\ spc' = IF slideDoc.spTree THEN "shapes" ELSE "returned"
    /\ UNCHANGED <<slideDoc, shapeIdx, slideTitle, bodyBlocks, shapeUse,
                   jsTitle, jsBodyBlocks, jsThrew>>

\* One iteration of the loop over the shapes, in convert.ts and, on the
\* same shape, in convert.js.
ParseShape ==
    /\ UNCHANGED besideSlide
    /\ spc = "shapes"
    /\ shapeIdx < Len(slideDoc.shapes)
    /\ LET acc    == [title |-> slideTitle, bodyBlocks |-> bodyBlocks,
                      threw |-> FALSE]
           next   == ShapeStep(acc, slideDoc.shapes[shapeIdx + 1])
           accJs  == [title |-> jsTitle, bodyBlocks |-> jsBodyBlocks,
                      threw |-> FALSE]
           nextJs == ShapeStepJs(accJs, slideDoc.shapes[shapeIdx + 1])
       IN  /\ jsTitle' = nextJs.title
           /\ jsBodyBlocks' = nextJs.bodyBlocks
           /\ jsThrew' = nextJs.threw
           /\ slideTitle' = next.title
           /\ bodyBlocks' = next.bodyBlocks
           /\ shapeIdx' = shapeIdx + 1
           /\ spc' = IF next.threw THEN "threw" ELSE "shapes"
           /\ shapeUse' = Append(shapeUse,
                                 IF next.threw THEN "threw"
                                 ELSE IF next.title # slideTitle THEN "title"
                                 ELSE IF next.bodyBlocks # bodyBlocks THEN "body"
                                 ELSE "none")
    /\ UNCHANGED slideDoc

\* return { title, bodyBlocks }
ReturnSlide ==
    /\ UNCHANGED besideSlide
    /\ spc = "shapes"
    /\ shapeIdx = Len(slideDoc.shapes)
    /\ spc' = "returned"
    /\ UNCHANGED <<slideDoc, shapeIdx, slideTitle, bodyBlocks, shapeUse,
                   jsTitle, jsBodyBlocks, jsThrew>>

\* ----------------------------------------------------------- slide pictures
\* Zip entry names, relationship ids and relationship targets are strings
\* of characters; a data URI and the text a function turns into are
\* sequences of longer pieces.
SLIDE1_KEY == <<"p","p","t","/","s","l","i","d","e","s","/",
                "s","l","i","d","e","1",".","x","m","l">>
MEDIA_PREFIX == <<"p","p","t","/","m","e","d","i","a","/">>
IMAGE1_PNG == <<"i","m","a","g","e","1",".","p","n","g">>
UP_MEDIA == <<".",".","/","m","e","d","i","a","/">>
CONSTRUCTOR == <<"c","o","n","s","t","r","u","c","t","o","r">>
RID1 == <<"r","I","d","1">>
RID2 == <<"r","I","d","2">>

\* undefined and null: both are falsy, as is the empty string.
Undefined == <<>>
Truthy(v) == v # <<>>

\* The names every plain object inherits from Object.prototype, of those
\* the model's keys can spell, and what the function found there reads as
\* when it is used as a string.
ObjectPrototypeKeys == {CONSTRUCTOR}
NativeFunction == <<"function Object() { [native code] }">>

\* obj[key] on an object literal: the own property, else the property
\* inherited from Object.prototype, else undefined.
Get(obj, key) ==
    IF key \in DOMAIN obj THEN obj[key]
    ELSE IF key \in ObjectPrototypeKeys THEN NativeFunction
    ELSE Undefined

\* resolveZipPath's loop: ".." pops (a no-op on an empty result), "." is
\* skipped, any other segment is pushed.
PopKeepsLast(kept) == kept

Pop(kept) ==
    IF kept = <<>> THEN <<>> ELSE SubSeq(kept, 1, Len(kept) - 1)

RECURSIVE ResolveParts(_, _)
ResolveParts(parts, kept) ==
    IF parts = <<>> THEN kept
    ELSE ResolveParts(Tail(parts),
                      IF Head(parts) = <<".", ".">> THEN Pop(kept)
                      ELSE IF Head(parts) # <<".">> THEN Append(kept, Head(parts))
                      ELSE kept)

ResolveZipPath(fromKey, target) ==
    LET segs  == Split(fromKey, "/")
        dir   == Join(SubSeq(segs, 1, Len(segs) - 1), <<"/">>)
        parts == Split(dir \o <<"/">> \o target, "/")
    IN  Join(ResolveParts(parts, <<>>), <<"/">>)

\* getMimeType's table.
MimeMap ==
    <<"p","n","g">> :> <<"image/png">> @@ <<"j","p","g">> :> <<"image/jpeg">>
    @@ <<"j","p","e","g">> :> <<"image/jpeg">> @@ <<"g","i","f">> :> <<"image/gif">>
    @@ <<"s","v","g">> :> <<"image/svg+xml">> @@ <<"w","e","b","p">> :> <<"image/webp">>
    @@ <<"b","m","p">> :> <<"image/bmp">> @@ <<"t","i","f">> :> <<"image/tiff">>
    @@ <<"t","i","f","f">> :> <<"image/tiff">>

GetMimeType(ext) == Get(MimeMap, ToLowerCase(ext))

\* `data:${mime};base64,${b64}`: the bytes are named by the entry they
\* come from.
DataUri(mime, key) == <<"data:">> \o mime \o <<";base64,">> \o key

\* The media cache convertPptxToHtml builds from the archive's entries.
MediaCacheOf(keys) ==
    LET Ext(key)  == LET p == Split(key, ".") IN p[Len(p)]
        cached == {key \in keys : /\ StartsWith(key, MEDIA_PREFIX)
                                  /\ Truthy(GetMimeType(Ext(key)))}
    IN  [key \in cached |-> DataUri(GetMimeType(Ext(key)), key)]

\* The relationship map of a slide, from the targets of its manifest.
RelsOf(slideKey, targets) ==
    [id \in DOMAIN targets |-> ResolveZipPath(slideKey, targets[id])]

\* One iteration of parseSlide's loop over the pictures: the shapes with
\* the picture's box appended, or unchanged when the picture is skipped.
PicStep(shapes, pic, relMap, cache) ==
    LET zipPath == Get(relMap, pic.embed)
        dataUri == IF Truthy(zipPath) THEN Get(cache, zipPath) ELSE Undefined
    IN  IF ~pic.xfrm \/ ~Truthy(pic.embed) \/ ~Truthy(dataUri) THEN shapes
        ELSE Append(shapes, [kind |-> "img", inner |-> dataUri])

\* escapeHtml(text)
EscapeHtml(text) ==
    [k \in 1..Len(text) |->
        CASE text[k] = "&" -> "&amp;" [] text[k] = "<" -> "&lt;"
          [] text[k] = ">" -> "&gt;" [] text[k] = "\"" -> "&quot;"
          [] OTHER -> text[k]]

\* paragraphsToHtml(paragraphs): one <p> element for each paragraph, its
\* start tag and its end tag being one piece each; the styles of the
\* paragraph and of the runs are left out.
RECURSIVE ParagraphsToHtml(_)
ParagraphsToHtml(paragraphs) ==
    IF paragraphs = <<>> THEN <<>>
    ELSE LET para    == Head(paragraphs)
             runs    == IF para.obj THEN para.r \o para.fld ELSE <<>>
             runHtml == EscapeHtml(Join(runs, <<>>))
         IN  <<"<p>">>
             \o (IF runs = <<>> \/ runHtml = <<>> THEN <<"&nbsp;">> ELSE runHtml)
             \o <<"</p>">> \o ParagraphsToHtml(Tail(paragraphs))

\* !html.replace(/&nbsp;/g, '').trim()
NothingToShow(html) ==
    LET Kept(piece) == piece # "&nbsp;"
    IN  Trim(SelectSeq(html, Kept)) = <<>>

\* parseSlide's loop over the text shapes: one box for each shape that has
\* a transform, a text body and rendered text.
RECURSIVE TextBoxes(_)
TextBoxes(texts) ==
    IF texts = <<>> THEN <<>>
    ELSE LET sp   == Head(texts)
             html == ParagraphsToHtml(sp.paragraphs)
         IN  (IF sp.xfrm /\ sp.txBody /\ ~NothingToShow(html)
              THEN <<[kind |-> "tb", inner |-> <<"<div class=\"tb\">">> \o html
                                                \o <<"</div>">>]>>
              ELSE <<>>)
             \o TextBoxes(Tail(texts))

\* parseSlide(slideDoc, rels, mediaCache, ...).shapes: nothing without a
\* p:spTree, else the boxes of the text shapes, then those of the pictures.
ParseSlide(spTree, texts, picList, relMap, cache) ==
    LET RECURSIVE Fold(_, _)
        Fold(shapes, rest) ==
            IF rest = <<>> THEN shapes
            ELSE Fold(PicStep(shapes, Head(rest), relMap, cache), Tail(rest))
    IN  IF ~spTree THEN <<>> ELSE Fold(TextBoxes(texts), picList)

\* The entries an archive may hold beside its slides, the targets a
\* manifest may name, and the pictures and text shapes of a slide.
MediaUniverse ==
    { MEDIA_PREFIX \o IMAGE1_PNG, MEDIA_PREFIX \o <<"b", ".", "x", "y">>,
      MEDIA_PREFIX \o <<"c", ".">> \o CONSTRUCTOR }

OutsideMedia == <<"p","p","t","/">> \o IMAGE1_PNG

TargetUniverse ==
    { UP_MEDIA \o IMAGE1_PNG, UP_MEDIA \o <<"b", ".", "x", "y">>,
      UP_MEDIA \o <<"c", ".">> \o CONSTRUCTOR,
      UP_MEDIA \o <<".", "/">> \o IMAGE1_PNG,
      <<".",".","/",".",".","/",".",".","/">> \o MEDIA_PREFIX \o IMAGE1_PNG,
      <<".",".","/",".",".","/">> \o CONSTRUCTOR }

Pictures ==
    [xfrm : {TRUE}, embed : {<<>>, RID1, RID2, CONSTRUCTOR}]
    \cup {[xfrm |-> FALSE, embed |-> RID1]}

TextShapeLists ==
    { <<>> }
    \cup { <<[xfrm |-> TRUE, txBody |-> TRUE, paragraphs |-> ps]>> :
              ps \in { <<Para(<<>>, << <<"a">> >>, <<>>)>>,
                       <<Para(<<>>, << <<" ">> >>, <<>>), EmptyPara>> } }

PicInit ==
    /\ zipMedia \in {m \cup {OutsideMedia} : m \in SUBSET MediaUniverse}
    /\ relTargets \in UNION {[ids -> TargetUniverse] : ids \in SUBSET {RID1, RID2}}
    /\ textShapes \in TextShapeLists
    /\ pics \in UNION {[1..n -> Pictures] : n \in 0..MaxPics}
    /\ mediaCache = <<>>
    /\ rels = <<>>
    /\ picIdx = 0
    /\ htmlShapes = <<>>
    /\ qpc = "media"

\* No call of parseSlide is under way.
PicOff ==
    /\ zipMedia = {}
    /\ relTargets = <<>>
    /\ textShapes = <<>>
    /\ pics = <<>>
    /\ mediaCache = <<>>
    /\ rels = <<>>
    /\ picIdx = 0
    /\ htmlShapes = <<>>
    /\ qpc = "off"

\* convertPptxToHtml's loop that caches the media of the archive.
CacheMedia ==
    /\ UNCHANGED besidePic
    /\ qpc = "media"
    /\ mediaCache' = MediaCacheOf(zipMedia)
    /\ qpc' = "rels"
    /\ UNCHANGED <<zipMedia, relTargets, textShapes, pics, rels, picIdx, htmlShapes>>

\* convertPptxToHtml's loop over the relationships of the slide.
LoadRels ==
    /\ UNCHANGED besidePic
    /\ qpc = "rels"
    /\ rels' = RelsOf(SLIDE1_KEY, relTargets)
    /\ qpc' = "texts"
    /\ UNCHANGED <<zipMedia, relTargets, textShapes, pics, mediaCache, picIdx,
                   htmlShapes>>

\* parseSlide's loop over the text shapes.
ParseTextShapes ==
    /\ UNCHANGED besidePic
    /\ qpc = "texts"
    /\ htmlShapes' = TextBoxes(textShapes)
    /\ qpc' = "pics"
    /\ UNCHANGED <<zipMedia, relTargets, textShapes, pics, mediaCache, rels, picIdx>>

\* One iteration of parseSlide's loop over the pictures.
ParsePic ==
    /\ UNCHANGED besidePic
    /\ qpc = "pics"
    /\ picIdx < Len(pics)
    /\ htmlShapes' = PicStep(htmlShapes, pics[picIdx + 1], rels, mediaCache)
    /\ picIdx' = picIdx + 1
    /\ UNCHANGED <<zipMedia, relTargets, textShapes, pics, mediaCache, rels, qpc>>

\* return { background, shapes, notes: '' }
ReturnHtmlSlide ==
    /\ UNCHANGED besidePic
    /\ qpc = "pics"
    /\ picIdx = Len(pics)
    /\ qpc' = "returned"
    /\ UNCHANGED <<zipMedia, relTargets, textShapes, pics, mediaCache, rels, picIdx,
                   htmlShapes>>

\* -------------------------------------------------------------- the viewer
\* The page buildPresentationHtml generates, in a browser: the containers
\* .swrap with the class active, the two buttons and the counter of #nav,
\* and the script's idx.
ForwardKeys == {"ArrowRight", "ArrowDown", "PageDown"}
BackKeys    == {"ArrowLeft", "ArrowUp", "PageUp"}
Keys        == ForwardKeys \cup BackKeys \cup {"Enter"}

\* The sizes the browser may give #area.
Areas == {"narrow", "wide"}

Min(a, b) == IF a < b THEN a ELSE b
Max(a, b) == IF a > b THEN a ELSE b

\* An index that is not clamped to the containers.
Unclamped(i, n) == i

\* Math.max(0, Math.min(wraps.length - 1, idx + d))
Clamp(i, n) == Max(0, Min(n - 1, i))

\* The disabled attribute of the next button in the generated markup.
NextEnabledAtLoad(n) == FALSE

NextDisabledAtLoad(n) == n <= 1

ViewerInit ==
    /\ wrapsLen \in 0..MaxSlides
    /\ active = {i \in 0..(wrapsLen - 1) : i = 0}
    /\ viewIdx = 0
    /\ prevDisabled = TRUE
    /\ nextDisabled = NextDisabledAtLoad(wrapsLen)
    /\ ctr = <<1, wrapsLen>>
    /\ area \in Areas
    /\ scaledFor = area
    /\ lastStep = [input |-> "load", from |-> 0, d |-> 0, threw |-> FALSE]
    /\ steps = 0
    /\ vpc = "open"

\* No viewer is open.
ViewerOff ==
    /\ wrapsLen = 0
    /\ active = {}
    /\ viewIdx = 0
    /\ prevDisabled = TRUE
    /\ nextDisabled = TRUE
    /\ ctr = <<1, 0>>
    /\ area = "narrow"
    /\ scaledFor = "narrow"
    /\ lastStep = [input |-> "load", from |-> 0, d |-> 0, threw |-> FALSE]
    /\ steps = 0
    /\ vpc = "off"

\* go(d), called for an input: with no container wraps[idx] is undefined
\* and the first statement throws, which ends the handler.
Go(input, d) ==
    /\ steps < MaxSteps
    /\ steps' = steps + 1
    /\ UNCHANGED <<wrapsLen, area, vpc>>
    /\ IF wrapsLen = 0
       THEN /\ lastStep' = [input |-> input, from |-> viewIdx, d |-> d,
                            threw |-> TRUE]
            /\ UNCHANGED <<active, viewIdx, prevDisabled, nextDisabled, ctr,
                           scaledFor>>
       ELSE LET to == Clamp(viewIdx + d, wrapsLen)
            IN  /\ lastStep' = [input |-> input, from |-> viewIdx, d |-> d,
                                threw |-> FALSE]
                /\ active' = (active \ {viewIdx}) \cup {to}
                /\ viewIdx' = to
                /\ ctr' = <<to + 1, wrapsLen>>
                /\ prevDisabled' = (to = 0)
                /\ nextDisabled' = (to = wrapsLen - 1)
                /\ scaledFor' = area

\* A click on the previous button: a disabled button fires no click.
ClickPrev ==
    /\ UNCHANGED besideViewer
    /\ vpc = "open"
    /\ ~prevDisabled
    /\ Go("prev", -1)

\* A click on the next button.
ClickNext ==
    /\ UNCHANGED besideViewer
    /\ vpc = "open"
    /\ ~nextDisabled
    /\ Go("next", 1)

\* The keydown listener.
KeyDown ==
    /\ UNCHANGED besideViewer
    /\ vpc = "open"
    /\ \E key \in Keys :
          IF key \in ForwardKeys THEN Go(key, 1)
          ELSE IF key \in BackKeys THEN Go(key, -1)
          ELSE /\ steps < MaxSteps
               /\ steps' = steps + 1
               /\ lastStep' = [input |-> key, from |-> viewIdx, d |-> 0,
                               threw |-> FALSE]
               /\ UNCHANGED <<wrapsLen, active, viewIdx, prevDisabled,
                              nextDisabled, ctr, area, scaledFor, vpc>>

\* The window is resized: the resize listener calls scale().
Resize ==
    /\ UNCHANGED besideViewer
    /\ vpc = "open"
    /\ \E a \in Areas \ {area} :
          /\ area' = a
          /\ scaledFor' = a
    /\ UNCHANGED <<wrapsLen, active, viewIdx, prevDisabled, nextDisabled, ctr,
                   lastStep, steps, vpc>>

\* -------------------------------------------------------- slide dimensions
DefaultW == 9144000
DefaultH == 6858000

\* What the cx and cy attributes of p:sldSz may hold; <<>> is an attribute
\* that is not there.
SizeTexts ==
    { <<>>, <<"0">>, <<"-", "5">>, <<"x">>, <<"1", "2">>, <<"1", "2", ".", "5">>,
      <<"1", "2", "p", "x">>, <<"-", "0">>, <<"9", "1", "4", "4", "0", "0", "0">> }

\* The presentation part: not in the archive, without p:sldSz (or with one
\* that has no attribute), or with the two attributes.
Presentations ==
    { [file |-> FALSE, sldSz |-> FALSE, cx |-> <<>>, cy |-> <<>>],
      [file |-> TRUE, sldSz |-> FALSE, cx |-> <<>>, cy |-> <<>>] }
    \cup [file : {TRUE}, sldSz : {TRUE}, cx : SizeTexts, cy : SizeTexts]

\* parseInt(text, 10) || default: the default replaces NaN and 0.
ParsedOrDefault(text, default) ==
    LET v == ParseIntStr(text)
    IN  IF v.nan \/ v.n = 0 THEN default ELSE v.n

DimsInit ==
    /\ presentation \in Presentations
    /\ slideW = DefaultW
    /\ slideH = DefaultH
    /\ zpc = "start"

\* No dimensions are being read.
DimsOff ==
    /\ presentation = [file |-> FALSE, sldSz |-> FALSE, cx |-> <<>>, cy |-> <<>>]
    /\ slideW = DefaultW
    /\ slideH = DefaultH
    /\ zpc = "off"

\* The slide dimensions are read from ppt/presentation.xml.
ReadSlideSize ==
    /\ UNCHANGED besideDims
    /\ zpc = "start"
    /\ IF presentation.file /\ presentation.sldSz
       THEN /\ slideW' = ParsedOrDefault(presentation.cx, slideW)
            /\ slideH' = ParsedOrDefault(presentation.cy, slideH)
       ELSE UNCHANGED <<slideW, slideH>>
    /\ zpc' = "read"
    /\ UNCHANGED presentation

\* --------------------------------------------------------------- the deck
\* The name of an archive entry: its directory, the letters of its file
\* name, the decimal digits that follow them, and the rest of the name.
EntryName(dir, stem, digits, ext) ==
    [dir |-> dir, stem |-> stem, digits |-> digits, ext |-> ext]

SlideName(digits) == EntryName("ppt/slides", "slide", digits, ".xml")
NotesName(digits) == EntryName("ppt/notesSlides", "notesSlide", digits, ".xml")
RelsName(digits)  == EntryName("ppt/slides/_rels", "slide", digits, ".xml.rels")

\* The entries an archive of the model may hold: slides whose numbers sort
\* differently as numbers and as strings, two slides with the same number,
\* and entries that are no slides.
EntryUniverse ==
    { SlideName(<<1>>), SlideName(<<2>>), SlideName(<<1, 0>>), SlideName(<<0, 2>>),
      SlideName(<<>>), NotesName(<<1>>), RelsName(<<1>>),
      EntryName("ppt/slideLayouts", "slideLayout", <<1>>, ".xml") }

\* /^ppt\/slides\/slide\d+\.xml$/.test(f)
IsSlideKey(name) ==
    /\ name.dir = "ppt/slides"
    /\ name.stem = "slide"
    /\ Len(name.digits) >= 1
    /\ name.ext = ".xml"

\* parseInt(digits, 10)
RECURSIVE ParseInt(_)
ParseInt(digits) ==
    IF digits = <<>> THEN 0
    ELSE 10 * ParseInt(SubSeq(digits, 1, Len(digits) - 1)) + digits[Len(digits)]

\* The decimal digits a template literal gives a positive number.
RECURSIVE DigitsOf(_)
DigitsOf(n) ==
    IF n < 10 THEN <<n>> ELSE Append(DigitsOf(n \div 10), n % 10)

\* parseInt(key.match(/slide(\d+)/)[1], 10)
SlideNumberOf(key) == ParseInt(key.digits)

\* The order of two digit strings as strings.
RECURSIVE DigitsBefore(_, _)
DigitsBefore(a, b) ==
    IF b = <<>> THEN FALSE
    ELSE IF a = <<>> THEN TRUE
    ELSE IF Head(a) # Head(b) THEN Head(a) < Head(b)
    ELSE DigitsBefore(Tail(a), Tail(b))

\* A comparator that compares the slide numbers as strings.
SlideCompareAsStrings(a, b) ==
    IF DigitsBefore(a.digits, b.digits) THEN -1
    ELSE IF DigitsBefore(b.digits, a.digits) THEN 1
    ELSE 0

\* The comparator of the sort: slideNum(a) - slideNum(b).
SlideCompare(a, b) == SlideNumberOf(a) - SlideNumberOf(b)

\* One step of the (stable) sort: key goes behind the last entry that the
\* comparator does not put after it.
RECURSIVE InsertSorted(_, _)
InsertSorted(sorted, key) ==
    IF sorted = <<>> THEN <<key>>
    ELSE IF SlideCompare(sorted[Len(sorted)], key) > 0
         THEN Append(InsertSorted(SubSeq(sorted, 1, Len(sorted) - 1), key),
                     sorted[Len(sorted)])
         ELSE Append(sorted, key)

\* keys.sort(comparator)
RECURSIVE SortSlideKeys(_)
SortSlideKeys(keys) ==
    IF keys = <<>> THEN <<>>
    ELSE InsertSorted(SortSlideKeys(SubSeq(keys, 1, Len(keys) - 1)),
                      keys[Len(keys)])

\* Object.keys(zip.files).filter(...).sort(...)
SlideKeysOf(keys) == SortSlideKeys(SelectSeq(keys, IsSlideKey))

\* parseStringPromise throws on an entry that is not well-formed XML; the
\* slides and the notes of the model may be malformed.
MayBeMalformed(name) == name.stem \in {"slide", "notesSlide"}

\* The archives: at most MaxEntries entries, each name once, in any order.
DeckListings ==
    {ks \in UNION {[1..n -> EntryUniverse] : n \in 0..MaxEntries} :
        \A a, b \in 1..Len(ks) : a # b => ks[a] # ks[b]}

Range(seq) == {seq[k] : k \in 1..Len(seq)}

\* The slide documents of the decks: a slide with a title and a body, a
\* slide with a body and no title, and a slide without a p:spTree.
DeckSlideDocs ==
    { [spTree |-> TRUE,
       shapes |-> << [phType |-> "title", txBody |-> TRUE,
                      paragraphs |-> <<Para(<<>>, << <<"a">> >>, <<>>)>>],
                     [phType |-> "body", txBody |-> TRUE,
                      paragraphs |-> <<Para(<<>>, << <<"b">> >>, <<>>),
                                       Para(<<"1">>, << <<"a">> >>, <<>>)>>] >>],
      [spTree |-> TRUE,
       shapes |-> << [phType |-> "", txBody |-> TRUE,
                      paragraphs |-> <<Para(<<>>, << <<"b">> >>, <<>>)>>],
                     [phType |-> "body", txBody |-> TRUE,
                      paragraphs |-> <<Para(<<>>, << <<"a">> >>, <<>>)>>] >>],
      [spTree |-> FALSE, shapes |-> <<>>] }

\* A shape of a notes document: its placeholder's idx attribute ('' without
\* one) besides what a slide's shape has.
NotesShape(phIdx, paragraphs) ==
    [phType |-> "body", phIdx |-> phIdx, txBody |-> TRUE,
     paragraphs |-> paragraphs]

\* The notes documents of the decks: notes of two lines behind the slide
\* image placeholder, notes with no text, and notes that start with a
\* space in a placeholder of another type.
DeckNotesDocs ==
    { [spTree |-> TRUE,
       shapes |-> << NotesShape(<<"0">>, <<Para(<<>>, << <<"b">> >>, <<>>)>>),
                     NotesShape(<<"1">>, <<Para(<<>>, << <<"a">> >>, <<>>),
                                          Para(<<>>, << <<" ">> >>, <<>>),
                                          Para(<<>>, << <<"b">> >>, <<>>)>>) >>],
      [spTree |-> TRUE,
       shapes |-> << NotesShape(<<"1">>, <<Para(<<>>, << <<" ">> >>, <<>>)>>) >>],
      [spTree |-> TRUE,
       shapes |-> << [phType |-> "title", phIdx |-> <<"1">>, txBody |-> TRUE,
                      paragraphs |-> <<Para(<<>>, << <<" ", "a">> >>, <<>>)>>] >>] }

\* What parseStringPromise gives for an entry that holds no document of
\* interest.
NoDoc == [spTree |-> FALSE, shapes |-> <<>>]

\* What an entry may hold.
ContentsFor(name) ==
    {[wellFormed |-> TRUE, doc |-> d] :
        d \in IF IsSlideKey(name) THEN DeckSlideDocs
              ELSE IF name.stem = "notesSlide" THEN DeckNotesDocs
              ELSE {NoDoc}}
    \cup (IF MayBeMalformed(name)
          THEN {[wellFormed |-> FALSE, doc |-> NoDoc]} ELSE {})

RECURSIVE ContentsOver(_)
ContentsOver(names) ==
    IF names = {} THEN {EmptyFs}
    ELSE LET n == CHOOSE x \in names : TRUE
         IN  {(n :> c) @@ f : c \in ContentsFor(n),
                              f \in ContentsOver(names \ {n})}

DeckContents(ks) == ContentsOver(Range(ks))

\* parseNotesDoc(notesDoc)
ParseNotesDoc(doc) ==
    LET Shown(t) == Trim(t) # <<>>
        LinesOf(sp) ==
            IF sp.phIdx # <<"1">> \/ ~sp.txBody THEN <<>>
            ELSE SelectSeq([k \in 1..Len(sp.paragraphs) |->
                              ParseParagraph(sp.paragraphs[k]).text], Shown)
        RECURSIVE NoteLines(_)
        NoteLines(shapes) ==
            IF shapes = <<>> THEN <<>>
            ELSE LinesOf(Head(shapes)) \o NoteLines(Tail(shapes))
    IN  IF ~doc.spTree THEN <<>> ELSE Join(NoteLines(doc.shapes), <<"\n">>)

\* The character of a decimal digit.
DigitChar(d) ==
    CASE d = 0 -> "0" [] d = 1 -> "1" [] d = 2 -> "2" [] d = 3 -> "3"
      [] d = 4 -> "4" [] d = 5 -> "5" [] d = 6 -> "6" [] d = 7 -> "7"
      [] d = 8 -> "8" [] d = 9 -> "9"

\* `${n}` for a positive number.
NumberToString(n) == [k \in 1..Len(DigitsOf(n)) |-> DigitChar(DigitsOf(n)[k])]

\* A heading numbered by the number in the slide's file name.
HeadingNumberFromName(slideNum, slideKey) == SlideNumberOf(slideKey)

\* The number in the heading of a slide without title: slideNum = i + 1.
HeadingNumber(slideNum, slideKey) == slideNum

\* A notes block for every slide.
NotesAlwaysShown(notes) == TRUE

\* if (notes.trim())
NotesShown(notes) == Trim(notes) # <<>>

\* The parts of a slide's section: the heading, the body blocks, the notes.
SectionParts(slide, notes, slideNum, slideKey) ==
    LET heading ==
            IF slide.title # <<>>
            THEN <<"#", "#", " ">> \o slide.title
            ELSE <<"#", "#", " ", "S", "l", "i", "d", "e", " ">>
                 \o NumberToString(HeadingNumber(slideNum, slideKey))
        Quote(l) == <<">", " ">> \o l
        split     == Split(notes, "\n")
        noteLines == Join([k \in 1..Len(split) |-> Quote(split[k])], <<"\n">>)
    IN  <<heading>>
        \o (IF slide.bodyBlocks # <<>>
            THEN <<Join(slide.bodyBlocks, <<"\n", "\n">>)>> ELSE <<>>)
        \o (IF NotesShown(notes)
            THEN << <<"*", "*", "N", "o", "t", "e", "s", ":", "*", "*", "\n", "\n">>
                    \o noteLines >>
            ELSE <<>>)

\* sections.join('\n\n---\n\n'): the sections with a rule between each two.
RECURSIVE JoinSections(_)
JoinSections(secs) ==
    IF Len(secs) <= 1 THEN secs
    ELSE <<Head(secs),
           [kind |-> "rule", text |-> <<"\n", "\n", "-", "-", "-", "\n", "\n">>]>>
         \o JoinSections(Tail(secs))

\* slides.map((slide, i) => container): one container per slide, the first
\* one active.
SlideContainers(slides) ==
    [k \in 1..Len(slides) |->
        [kind |-> "container", dataI |-> k - 1, active |-> (k - 1 = 0),
         slide |-> slides[k]]]

DeckInit ==
    /\ renderer \in {"markdown", "html"}
    /\ zipKeys \in DeckListings
    /\ zipFiles \in DeckContents(zipKeys)
    /\ dpc = "open"
    /\ slideKeys = <<>>
    /\ slideIdx = 0
    /\ sections = <<>>
    /\ result = <<>>

\* The orchestrator is not running.
MainOff ==
    /\ variant = "md"
    /\ inputExists = FALSE
    /\ inFiles = EmptyFs
    /\ outFs = EmptyFs
    /\ initOut = EmptyFs
    /\ pc = "off"
    /\ xlsxFiles = <<>>
    /\ convertFiles = <<>>
    /\ idx = 0
    /\ ok = 0
    /\ fail = 0
    /\ log = <<>>
    /\ exitCode = -1
    /\ crashed = "none"
    /\ failed = EmptyFs
    /\ writes = {}
    /\ dispatched = {}
    /\ copied = {}
    /\ run = 1
    /\ firstRun = <<>>

\* The archive is loaded and the slide entries are filtered and sorted.
OpenDeck ==
    /\ UNCHANGED besideDeck
    /\ dpc = "open"
    /\ slideKeys' = SlideKeysOf(zipKeys)
    /\ dpc' = IF slideKeys' = <<>> THEN "join" ELSE "slides"
    /\ UNCHANGED <<renderer, zipKeys, zipFiles, slideIdx, sections, result>>

\* One iteration of the loop over slideKeys: the relationship manifest (HTML
\* only), the slide and the notes are looked up and parsed, and the slide's
\* section is pushed; a parse error rejects the whole conversion.
ConvertSlide ==
    /\ UNCHANGED besideDeck
    /\ dpc = "slides"
    /\ slideIdx < Len(slideKeys)
    /\ LET slideKey == slideKeys[slideIdx + 1]
           slideNum == slideIdx + 1
           relKey   == RelsName(DigitsOf(slideNum))
           notesKey == NotesName(DigitsOf(slideNum))
           hasRels  == renderer = "html" /\ relKey \in DOMAIN zipFiles
           hasNotes == notesKey \in DOMAIN zipFiles
           parsed   == {slideKey} \cup (IF hasRels THEN {relKey} ELSE {})
                                  \cup (IF hasNotes THEN {notesKey} ELSE {})
           slide    == ParseSlideDoc(zipFiles[slideKey].doc)
           notes    == IF hasNotes THEN ParseNotesDoc(zipFiles[notesKey].doc)
                       ELSE <<>>
           parts    == SectionParts(slide, notes, slideNum, slideKey)
           origin   == [kind |-> "section", key |-> slideKey,
                        slideNum |-> slideNum,
                        notesFrom |-> IF hasNotes THEN <<notesKey>> ELSE <<>>,
                        relsFrom |-> IF hasRels THEN <<relKey>> ELSE <<>>]
           doc      == zipFiles[slideKey].doc
           boxes    == ParseSlide(doc.spTree,
                                  [k \in 1..Len(doc.shapes) |->
                                      [xfrm |-> TRUE,
                                       txBody |-> doc.shapes[k].txBody,
                                       paragraphs |-> doc.shapes[k].paragraphs]],
                                  <<>>, <<>>, <<>>)
           section  == IF renderer = "html"
                       THEN [kind |-> "section", key |-> slideKey,
                             slideNum |-> slideNum,
                             notesFrom |-> origin.notesFrom,
                             relsFrom |-> origin.relsFrom,
                             shapes |-> boxes]
                       ELSE [kind |-> "section", key |-> slideKey,
                             slideNum |-> slideNum,
                             notesFrom |-> origin.notesFrom,
                             relsFrom |-> origin.relsFrom,
                             title |-> slide.title,
                             bodyBlocks |-> slide.bodyBlocks,
                             notes |-> notes,
                             text |-> Join(parts, <<"\n", "\n">>)]
       IN  IF \/ \E name \in parsed : ~zipFiles[name].wellFormed
              \/ (renderer = "markdown" /\ slide.threw)
           THEN /\ dpc' = "rejected"
                /\ UNCHANGED <<slideIdx, sections>>
           ELSE /\ sections' = Append(sections, section)
                /\ slideIdx' = slideIdx + 1
                /\ dpc' = IF slideIdx + 1 = Len(slideKeys) THEN "join" ELSE "slides"
    /\ UNCHANGED <<renderer, zipKeys, zipFiles, slideKeys, result>>

\* The sections are joined (Markdown) or the viewer is built (HTML), and
\* the conversion resolves.
JoinDeck ==
    /\ UNCHANGED besideDeck
    /\ dpc = "join"
    /\ result' = IF renderer = "markdown"
                 THEN JoinSections(sections)
                 ELSE SlideContainers(sections)
    /\ dpc' = "done"
    /\ UNCHANGED <<renderer, zipKeys, zipFiles, slideKeys, slideIdx, sections>>

InitDeck == DeckInit /\ MainOff /\ SlideOff /\ PicOff /\ ViewerOff /\ DimsOff
    /\ DirsOff

NextDeck ==
    \/ OpenDeck
    \/ ConvertSlide
    \/ JoinDeck

SpecDeck == InitDeck /\ [][NextDeck]_vars

\* No deck conversion is under way.
DeckOff ==
    /\ renderer = "markdown"
    /\ zipKeys = <<>>
    /\ zipFiles = EmptyFs
    /\ dpc = "off"
    /\ slideKeys = <<>>
    /\ slideIdx = 0
    /\ sections = <<>>
    /\ result = <<>>

Init == MainInit /\ DeckOff /\ SlideOff /\ PicOff /\ ViewerOff /\ DimsOff
    /\ DirsOff

Next ==
    \/ Start
    \/ CopyOne
    \/ ConvertOne
    \/ Finish
    \/ Restart

Spec == Init /\ [][Next]_vars

InitSlide == SlideInit /\ MainOff /\ DeckOff /\ PicOff /\ ViewerOff /\ DimsOff
    /\ DirsOff

NextSlide ==
    \/ FindSpTree
    \/ ParseShape
    \/ ReturnSlide

SpecSlide == InitSlide /\ [][NextSlide]_vars

InitPic == PicInit /\ MainOff /\ DeckOff /\ SlideOff /\ ViewerOff /\ DimsOff
    /\ DirsOff

NextPic ==
    \/ CacheMedia
    \/ LoadRels
    \/ ParseTextShapes
    \/ ParsePic
    \/ ReturnHtmlSlide

SpecPic == InitPic /\ [][NextPic]_vars

\* A run that converts the one document a.docx into an output directory
\* that holds any of the output trees.
InitSidebar ==
    /\ variant \in Variants
    /\ inputExists = TRUE
    /\ inFiles = (<<A_DOCX>> :> [kind |-> "src", data |-> <<A_DOCX>>,
                                  corrupt |-> FALSE])
    /\ outFs \in OutputTrees
    /\ initOut = outFs
    /\ pc = "start"
    /\ xlsxFiles = <<>>
    /\ convertFiles = <<>>
    /\ idx = 0
    /\ ok = 0
    /\ fail = 0
    /\ log = <<>>
    /\ exitCode = -1
    /\ crashed = "none"
    /\ failed = EmptyFs
    /\ writes = {}
    /\ dispatched = {}
    /\ copied = {}
    /\ run = 1
    /\ firstRun = <<>>
    /\ DeckOff /\ SlideOff /\ PicOff /\ ViewerOff /\ DimsOff /\ DirsOff

NextSidebar ==
    \/ Start
    \/ ConvertOne
    \/ Finish

SpecSidebar == InitSidebar /\ [][NextSidebar]_vars

InitViewer == ViewerInit /\ MainOff /\ DeckOff /\ SlideOff /\ PicOff /\ DimsOff
    /\ DirsOff

InitDims == DimsInit /\ MainOff /\ DeckOff /\ SlideOff /\ PicOff /\ ViewerOff
    /\ DirsOff

NextDims == ReadSlideSize

SpecDims == InitDims /\ [][NextDims]_vars

InitDirs == DirsInit /\ DeckOff /\ SlideOff /\ PicOff /\ ViewerOff /\ DimsOff

NextDirs ==
    \/ StartOnDisk
    \/ CopyOnDisk
    \/ ConvertOnDisk
    \/ FinishOnDisk

SpecDirs == InitDirs /\ [][NextDirs]_vars

NextViewer ==
    \/ ClickPrev
    \/ ClickNext
    \/ KeyDown
    \/ Resize

SpecViewer == InitViewer /\ [][NextViewer]_vars


\* ----------------------------------------------------- orchestrator claims
\* The lines of a kind in the log.
LogLines(kind) == {k \in 1..Len(log) : log[k].line = kind}

\* A run of main that got past the input-directory check has ended.
RunEnded == pc = "done" /\ inputExists

\* The name of a file without its extension.
NameWithoutExt(name) ==
    IF LastDot(name) > 1 THEN SubSeq(name, 1, LastDot(name) - 1) ELSE name

\* The path of a file with the extension of its name replaced by ".md".
MirroredMd(path) ==
    Dirname(path) \o <<NameWithoutExt(Basename(path)) \o EXT_MD>>

\* C2: in the loop over the convertible files no failure of a step of one
\* file escapes the loop (it is caught and counted, and the later files are
\* attempted), and when the loop has ended ok + fail is the number of
\* convertible files.
C2_FailureCaughtAndCounted ==
    /\ crashed # "convert"
    /\ pc = "sidebar" => /\ ok + fail = Len(convertFiles)
                         /\ \A k \in 1..Len(convertFiles) :
                                convertFiles[k] \in dispatched

\* C3: a file counted as failed has no output file written for it in the
\* run, neither its Markdown file nor its viewer file.
C3_NoOutputForFailedFile ==
    \A f \in DOMAIN failed : ~\E w \in writes : w.src = f

\* C4: every run that got past the input-directory check has written
\* sidebar.ts at the output root when it ends.
C4_SidebarAlwaysWritten ==
    RunEnded => \E w \in writes : w.dst = <<SIDEBAR_TS>>

\* C5: the process exits with 1 when the input directory does not exist
\* and when an error escaped main, and with 0 in every other run, whatever
\* the number of failed files.
C5_ExitCode ==
    pc = "done" =>
        exitCode = (IF ~inputExists \/ crashed # "none" THEN 1 ELSE 0)

\* C5 witness: a run with a failed file that ended with exit code 0.
C5_Witness ==
    pc = "done" /\ fail > 0 /\ exitCode = 0

\* C6: every run that got past the input-directory check has printed the
\* summary line with the counts of converted and failed files when it ends,
\* and every failed file is reported with the message of its error.
C6_SummaryAlwaysPrinted ==
    RunEnded =>
        /\ \E k \in LogLines("done") : log[k].ok = ok /\ log[k].fail = fail
        /\ \A f \in DOMAIN failed :
              \E k \in LogLines("failed") :
                  log[k].file = f /\ log[k].msg = failed[f]

\* C7: a second run on the same input, both runs starting from an empty
\* output directory, leaves the same output files with the same contents
\* as the first, whatever the order in which the directories were listed.
\* Stated for the pairs of runs in which no file failed and no error
\* escaped main, so that the comparison is between two complete outputs.
C7_RunsAgree ==
    ( /\ run = 2 /\ pc = "done"
      /\ firstRun.init = EmptyFs
      /\ firstRun.exit = 0 /\ firstRun.fail = 0
      /\ exitCode = 0 /\ fail = 0 ) => outFs = firstRun.out

\* C8: every file converted with success has exactly one Markdown file
\* written for it, at its own relative path with the extension replaced by
\* ".md", with the title (the name without extension) and the source (the
\* name) in its frontmatter.
C8_MirroredMarkdown ==
    \A f \in dispatched \ DOMAIN failed :
        LET md == {w \in writes : w.src = f /\ w.content.kind = "md"}
        IN  /\ Cardinality(md) = 1
            /\ \A w \in md :
                  /\ w.dst = MirroredMd(f)
                  /\ w.content.title = NameWithoutExt(Basename(f))
                  /\ w.content.source = Basename(f)

\* C9 as claimed: when the conversions start, every .xlsx file of the
\* input has an unchanged copy at the same relative path of the output.
C9_EveryXlsxCopied ==
    pc \in {"convert", "sidebar"} =>
        \A p \in DOMAIN inFiles :
            IsXlsx(p) => p \in DOMAIN outFs /\ outFs[p] = inFiles[p]

\* C9 as amended: in the variants that recognize spreadsheets (convert.ts
\* Markdown and HTML), when the conversions start every .xlsx file whose
\* name does not start with "~$" has a copy at the same relative path of
\* the output, equal to the source, and the source still holds its data.
C9_RecognizedXlsxCopied ==
    (variant \in {"md", "html"} /\ pc \in {"convert", "sidebar"}) =>
        \A p \in DOMAIN inFiles :
            (IsXlsx(p) /\ ~IsLockFile(p)) =>
                /\ p \in DOMAIN outFs
                /\ outFs[p] = inFiles[p]
                /\ inFiles[p].data = p

\* C9 witness: the first conversion is about to start after a spreadsheet
\* below a directory was copied.
C9_Witness ==
    /\ pc = "convert"
    /\ idx = 0
    /\ dispatched = {}
    /\ <<DIR_D, A_XLSX>> \in copied
    /\ <<DIR_D, A_XLSX>> \in DOMAIN outFs

\* C10: no file whose name starts with "~$" and no file with an extension
\* outside .docx, .pptx, .xlsx is handed to a converter or copied.
C10_NoLockOrForeignFile ==
    \A p \in dispatched \cup copied :
        /\ ~IsLockFile(p)
        /\ LowerExt(p) \in {EXT_DOCX, EXT_PPTX, EXT_XLSX}

\* -------------------------------------------------------------- deck claims
\* The slide of a block of the result: the section itself (Markdown) or the
\* slide of the container (HTML).
SlideOfBlock(block) ==
    IF block.kind = "container" THEN block.slide ELSE block

\* The sections (Markdown) or slide containers (HTML) of the result.
RenderedSlides ==
    LET IsSlide(b) == b.kind \in {"section", "container"}
        blocks == SelectSeq(result, IsSlide)
    IN  [k \in 1..Len(blocks) |-> SlideOfBlock(blocks[k])]

\* C1: a converted deck has exactly one section / slide container for each
\* archive entry named ppt/slides/slide<digits>.xml, and they are in
\* ascending order of the number in the entry's name, whatever the order
\* of the archive's listing.
C1_OneSectionPerSlideInNumericOrder ==
    dpc = "done" =>
        /\ Len(RenderedSlides) =
               Cardinality({k \in 1..Len(zipKeys) : IsSlideKey(zipKeys[k])})
        /\ \A k \in 1..Len(zipKeys) :
               IsSlideKey(zipKeys[k]) =>
                   Cardinality({n \in 1..Len(RenderedSlides) :
                                   RenderedSlides[n].key = zipKeys[k]}) = 1
        /\ \A a, b \in 1..Len(RenderedSlides) :
               a < b => ParseInt(RenderedSlides[a].key.digits)
                            <= ParseInt(RenderedSlides[b].key.digits)

\* C1 witness: an archive that lists slide10 before slide2, and an entry
\* that is no slide, converted to two sections, slide2 first.
C1_Witness ==
    /\ dpc = "done"
    /\ zipKeys = <<SlideName(<<1, 0>>), RelsName(<<1>>), SlideName(<<2>>)>>
    /\ Len(RenderedSlides) = 2
    /\ RenderedSlides[1].key = SlideName(<<2>>)
    /\ RenderedSlides[2].key = SlideName(<<1, 0>>)

\* The slide document of the k-th section.
DocOfSection(k) == zipFiles[sections[k].key].doc

\* The first line of a text.
FirstLine(text) == Split(text, "\n")[1]

\* C11: the section of a slide with no title-typed placeholder starts with
\* the heading "## Slide n", n being the slide's position in the sorted
\* slide list, not the number in its file name.
C11_UntitledHeadingByPosition ==
    renderer = "markdown" =>
        \A k \in 1..Len(sections) :
            (\A j \in 1..Len(DocOfSection(k).shapes) :
                DocOfSection(k).shapes[j].phType
                    \notin {"title", "ctrTitle", "subTitle"})
            => FirstLine(sections[k].text)
                   = <<"#", "#", " ", "S", "l", "i", "d", "e", " ">>
                     \o NumberToString(k)

\* C11 witness: slide10.xml, without title, is the second slide of its deck
\* and its section is headed "## Slide 2".
C11_Witness ==
    /\ renderer = "markdown"
    /\ dpc = "done"
    /\ Len(sections) = 2
    /\ sections[2].key = SlideName(<<1, 0>>)
    /\ sections[2].title = <<>>
    /\ FirstLine(sections[2].text) = <<"#", "#", " ", "S", "l", "i", "d", "e", " ", "2">>

\* The text of the section of the k-th slide as the layout has it: the
\* heading, the body blocks if any, the notes block if the notes are not
\* empty, with an empty line between each two.
LaidOutSection(k) ==
    LET sec     == sections[k]
        heading == <<"#", "#", " ">>
                   \o (IF sec.title # <<>> THEN sec.title
                       ELSE <<"S", "l", "i", "d", "e", " ">> \o NumberToString(k))
        quoted  == [j \in 1..Len(Split(sec.notes, "\n")) |->
                       <<">", " ">> \o Split(sec.notes, "\n")[j]]
        gap     == <<"\n", "\n">>
    IN  heading
        \o (IF sec.bodyBlocks # <<>>
            THEN gap \o Join(sec.bodyBlocks, gap) ELSE <<>>)
        \o (IF sec.notes # <<>>
            THEN gap \o <<"*", "*", "N", "o", "t", "e", "s", ":", "*", "*">>
                 \o gap \o Join(quoted, <<"\n">>)
            ELSE <<>>)

\* The Markdown text convertPptx resolves with.
ResultText == Join([k \in 1..Len(result) |-> result[k].text], <<>>)

\* C14: every section of a converted deck is the heading, then the body
\* blocks if any, then the notes block exactly when the slide's notes are
\* not empty; the sections are in slide order and the text of a deck of
\* n >= 1 slides holds exactly n-1 separator lines "---".
C14_SectionLayout ==
    (renderer = "markdown" /\ dpc = "done" /\ Len(sections) >= 1) =>
        /\ \A k \in 1..Len(sections) : sections[k].text = LaidOutSection(k)
        /\ [k \in 1..Len(sections) |-> sections[k].key] = slideKeys
        /\ ResultText = Join([k \in 1..Len(sections) |-> sections[k].text],
                             <<"\n", "\n", "-", "-", "-", "\n", "\n">>)
        /\ Cardinality({j \in 1..Len(Split(ResultText, "\n")) :
                           Split(ResultText, "\n")[j] = <<"-", "-", "-">>})
               = Len(sections) - 1

\* C14 witness: a deck of two slides, the first with title, body and notes
\* of two lines, the second without title and notes, converted to two
\* sections with a separator between them.
C14_Witness ==
    /\ renderer = "markdown"
    /\ dpc = "done"
    /\ Len(sections) = 2
    /\ sections[1].title # <<>> /\ sections[1].bodyBlocks # <<>>
    /\ sections[1].notes = <<"a", "\n", "b">>
    /\ sections[2].title = <<>> /\ sections[2].notes = <<>>
    /\ Len(result) = 3

\* ------------------------------------------------------------ slide claims
\* The shapes of the slide document under parseSlideDoc.
ShapeAt(k) == slideDoc.shapes[k]

TitleTyped(k) == ShapeAt(k).phType \in {"title", "ctrTitle", "subTitle"}

\* The non-empty texts of the paragraphs of shape k, in order.
TextsOf(k) ==
    LET paras == ShapeAt(k).paragraphs
        Given(j) == paras[j].obj /\ Join(paras[j].r \o paras[j].fld, <<>>) # <<>>
        RECURSIVE From(_)
        From(j) == IF j > Len(paras) THEN <<>>
                   ELSE (IF Given(j)
                         THEN <<Join(paras[j].r \o paras[j].fld, <<>>)>>
                         ELSE <<>>) \o From(j + 1)
    IN  IF ShapeAt(k).txBody THEN From(1) ELSE <<>>

\* Shape k has a paragraph whose text is more than white space.
HasVisibleText(k) ==
    \E j \in 1..Len(TextsOf(k)) : \E c \in 1..Len(TextsOf(k)[j]) :
        TextsOf(k)[j][c] \notin {" ", "\n"}

\* The title-typed shapes with text, and the first of them.
TitleCandidates == {k \in 1..Len(slideDoc.shapes) : TitleTyped(k) /\ TextsOf(k) # <<>>}

FirstTitleCandidate == CHOOSE k \in TitleCandidates : \A j \in TitleCandidates : k <= j

\* The title is the text of the first title-typed shape with text, and the
\* slide has no other title.
TitleIsFirstCandidate ==
    IF TitleCandidates = {}
    THEN slideTitle = <<>> /\ \A k \in 1..Len(shapeUse) : shapeUse[k] # "title"
    ELSE /\ slideTitle = Join(TextsOf(FirstTitleCandidate), <<" ">>)
         /\ \A k \in 1..Len(shapeUse) :
                shapeUse[k] = "title" <=> k = FirstTitleCandidate

\* C12 as claimed: when parseSlideDoc returns, the title is the text of the
\* first shape that is title-typed (title, ctrTitle, subTitle) and has
\* non-empty text, and every later title-typed shape with text has become
\* a body block; at most one shape gives the title and none gives both.
C12_FirstTitleOthersBody ==
    spc = "returned" /\ slideDoc.spTree =>
        /\ TitleIsFirstCandidate
        /\ \A k \in TitleCandidates :
              k # FirstTitleCandidate => shapeUse[k] = "body"

\* C12 as amended: the same, but a later title-typed shape becomes a body
\* block only when its text is more than white space; a later title-typed
\* shape with white space for text is dropped.
C12_FirstTitleOthersBodyIfVisible ==
    spc = "returned" /\ slideDoc.spTree =>
        /\ TitleIsFirstCandidate
        /\ Len(bodyBlocks) = Cardinality({k \in 1..Len(shapeUse) : shapeUse[k] = "body"})
        /\ \A k \in TitleCandidates :
              k # FirstTitleCandidate =>
                  shapeUse[k] = (IF HasVisibleText(k) THEN "body" ELSE "none")

\* C12 witness: a slide with two title-typed shapes that both have text has
\* been parsed: the first gave the title, the second a body block.
C12_Witness ==
    /\ spc = "returned"
    /\ Len(slideDoc.shapes) = 2
    /\ TitleCandidates = {1, 2}
    /\ shapeUse = <<"title", "body">>
    /\ Len(bodyBlocks) = 1
\* The body block made from shape k, for a shape used as body.
BlockOf(k) ==
    bodyBlocks[Cardinality({j \in 1..k : shapeUse[j] = "body"})]

\* The paragraphs of shape k whose text is more than white space, parsed.
VisibleParagraphs(k) ==
    LET paras == ShapeAt(k).paragraphs
        Visible(p) == Trim(p.text) # <<>>
    IN  SelectSeq([j \in 1..Len(paras) |-> ParseParagraph(paras[j])], Visible)

\* The lines of a block that are not empty.
BlockLines(block) ==
    LET Filled(l) == l # <<>> IN SelectSeq(Split(block, "\n"), Filled)

\* C13: in the block paragraphsToMarkdown makes of a shape's paragraphs,
\* every paragraph with visible text is one line, in paragraph order, and
\* the line of a paragraph at level L (0 without a lvl attribute) is 2*L
\* spaces, then "- ", then the paragraph's text.
C13_TwoSpacesPerLevel ==
    \A k \in 1..Len(shapeUse) :
        shapeUse[k] = "body" =>
            LET paras == VisibleParagraphs(k)
                found == BlockLines(BlockOf(k))
            IN  /\ Len(found) = Len(paras)
                /\ \A j \in 1..Len(paras) :
                      (~paras[j].level.nan /\ paras[j].level.n >= 0) =>
                          found[j] = [c \in 1..(2 * paras[j].level.n) |-> " "]
                                     \o <<"-", " ">> \o paras[j].text

\* C13 witness: a paragraph with lvl="2" and the text "b" was rendered with
\* four spaces before the bullet marker, one with lvl="0" with none.
C13_Witness ==
    /\ spc = "returned"
    /\ Len(shapeUse) = 2
    /\ shapeUse = <<"body", "body">>
    /\ ShapeAt(1).paragraphs[1].lvl = <<"2">>
    /\ BlockOf(1) = <<" ", " ", " ", " ", "-", " ", "b">>
    /\ ShapeAt(2).paragraphs[1].lvl = <<"0">>
    /\ StartsWith(BlockOf(2), <<"-", " ", "a", "\n">>)

\* ---------------------------------------------------------- picture claims
\* The entries of the archive that are media of a recognized type: under
\* ppt/media/, with an extension that, in lower case, is in the table.
RecognizedMedia ==
    {key \in zipMedia :
        /\ StartsWith(key, MEDIA_PREFIX)
        /\ ToLowerCase(Split(key, ".")[Len(Split(key, "."))]) \in DOMAIN MimeMap}

\* The picture names no relationship, or one the slide's manifest does not
\* have, or one that leads to no recognized media of the archive.
UnresolvedPic(pic) ==
    \/ pic.embed = <<>>
    \/ pic.embed \notin DOMAIN rels
    \/ rels[pic.embed] \notin RecognizedMedia

RECURSIVE ParsePics(_, _)
ParsePics(shapes, picList) ==
    IF picList = <<>> THEN shapes
    ELSE ParsePics(PicStep(shapes, Head(picList), rels, mediaCache), Tail(picList))

\* C15: when parseSlide has returned, every picture whose relationship id
\* is absent, is no key of the slide's relationship map, or maps to a path
\* without recognized media in the archive has added no shape: the shapes
\* are those of the same slide with these pictures taken out.
C15_UnresolvedPictureAddsNothing ==
    qpc = "returned" =>
        htmlShapes = ParsePics(TextBoxes(textShapes),
                               SelectSeq(pics, LAMBDA p : ~UnresolvedPic(p)))

\* The part of a zip path before its last "/".
DirPart(base) ==
    LET at == {k \in 1..Len(base) : base[k] = "/"}
    IN  IF at = {} THEN <<>>
        ELSE SubSeq(base, 1, (CHOOSE k \in at : \A j \in at : j <= k) - 1)

\* The segments kept after the first n of parts: ".." removes the last one
\* kept (none when there is none), "." is dropped, the others are kept.
RECURSIVE KeptAfter(_, _)
KeptAfter(parts, n) ==
    IF n = 0 THEN <<>>
    ELSE LET before == KeptAfter(parts, n - 1)
         IN  IF parts[n] = <<".", ".">>
             THEN SubSeq(before, 1, Len(before) - 1)
             ELSE IF parts[n] = <<".">> THEN before
             ELSE Append(before, parts[n])

\* C16: every entry of the relationship map is the target resolved against
\* the slide's entry name: the directory part of the name, "/", the target,
\* split on "/" and folded, ".." removing the last segment kept, "." being
\* dropped and every other segment kept, then joined with "/".
C16_ResolveZipPath ==
    qpc \in {"texts", "pics", "returned"} =>
        \A id \in DOMAIN relTargets :
            LET parts == Split(DirPart(SLIDE1_KEY) \o <<"/">> \o relTargets[id], "/")
            IN  rels[id] = Join(KeptAfter(parts, Len(parts)), <<"/">>)

\* '../media/image1.png' from 'ppt/slides/slide1.xml' has become
\* 'ppt/media/image1.png', and so has a target that climbs above the root.
C16_Witness ==
    /\ qpc = "returned"
    /\ DOMAIN relTargets = {RID1, RID2}
    /\ relTargets[RID1] = <<".",".","/","m","e","d","i","a","/",
                            "i","m","a","g","e","1",".","p","n","g">>
    /\ rels[RID1] = <<"p","p","t","/","m","e","d","i","a","/",
                      "i","m","a","g","e","1",".","p","n","g">>
    /\ relTargets[RID2] = <<".",".","/",".",".","/",".",".","/">>
                              \o MEDIA_PREFIX \o IMAGE1_PNG
    /\ rels[RID2] = rels[RID1]

\* ---------------------------------------------------------- sidebar claims
\* The run has written sidebar.ts.
SidebarWritten ==
    /\ pc = "done"
    /\ <<SIDEBAR_TS>> \in DOMAIN outFs
    /\ outFs[<<SIDEBAR_TS>>].kind = "sidebar"

IsGroup(item) == "items" \in DOMAIN item

\* The name of the entry a sidebar item was made from.
EntryNameOf(item) ==
    IF IsGroup(item) THEN item.text
    ELSE LET segs == Split(item.link, "/")
             last == segs[Len(segs)]
         IN  IF EndsWith(last, EXT_XLSX) THEN last ELSE last \o EXT_MD

RECURSIVE GroupsFirstAscending(_)
GroupsFirstAscending(items) ==
    /\ \A i, j \in 1..Len(items) :
          i < j => /\ IsGroup(items[j]) => IsGroup(items[i])
                   /\ IsGroup(items[i]) = IsGroup(items[j])
                        => ~LocaleLess(EntryNameOf(items[j]), EntryNameOf(items[i]))
    /\ \A i \in 1..Len(items) :
          IsGroup(items[i]) => GroupsFirstAscending(items[i].items)

\* C17: at every level of the sidebar all directory groups come before all
\* file links, and the groups among themselves and the links among
\* themselves are in ascending order of the entry names, in the order
\* localeCompare gives them.
C17_GroupsFirstAscending ==
    SidebarWritten => GroupsFirstAscending(outFs[<<SIDEBAR_TS>>].items)

\* Two groups precede the links although their names come after the
\* links' names, and the link of a.md precedes the link of A.md.
C17_Witness ==
    /\ SidebarWritten
    /\ LET items == outFs[<<SIDEBAR_TS>>].items
       IN  /\ Len(items) = 4
           /\ items[1].text = DIR_D /\ IsGroup(items[1])
           /\ items[2].text = SUB /\ IsGroup(items[2])
           /\ items[3] = [text |-> <<"a">>, link |-> <<"/", "a">>]
           /\ items[4] = [text |-> <<"A">>, link |-> <<"/", "A">>]

\* The items of one level are exactly those of the entries of dir whose
\* names are not in skipped: a collapsed group for a directory, holding
\* the items of its level; a link without the .md for a Markdown file; a
\* link with the download glyph for a spreadsheet, when spreadsheets are
\* linked; nothing for any other file.
RECURSIVE MapsLevel(_, _, _, _, _)
MapsLevel(items, dir, urlBase, skipped, xlsxLinked) ==
    LET listed == {p \in EntriesOf(outFs, dir) : Basename(p) \notin skipped}
        IsPage(p)   == outFs[p].kind # "dir" /\ EndsWith(Basename(p), EXT_MD)
        IsSheet(p) == outFs[p].kind # "dir" /\ ~EndsWith(Basename(p), EXT_MD)
                        /\ EndsWith(Basename(p), EXT_XLSX)
        Cut(name, n) == SubSeq(name, 1, Len(name) - n)
        shown == {p \in listed : \/ outFs[p].kind = "dir"
                                 \/ IsPage(p)
                                 \/ (xlsxLinked /\ IsSheet(p))}
    IN  /\ Len(items) = Cardinality(shown)
        /\ \A p \in shown :
              \E i \in 1..Len(items) :
                 IF outFs[p].kind = "dir"
                 THEN /\ IsGroup(items[i])
                      /\ items[i].text = Basename(p)
                      /\ items[i].collapsed
                      /\ MapsLevel(items[i].items, p,
                                   urlBase \o Basename(p) \o <<"/">>,
                                   skipped, xlsxLinked)
                 ELSE IF IsPage(p)
                 THEN items[i] = [text |-> Cut(Basename(p), 3),
                                  link |-> urlBase \o Cut(Basename(p), 3)]
                 ELSE items[i] = [text |-> <<"download", " ">> \o Cut(Basename(p), 5),
                                  link |-> urlBase \o Basename(p)]

\* C18 as stated: the sidebar has a collapsed group for every directory, a
\* link with the .md stripped from text and target for every .md file, a
\* link with the download glyph for every .xlsx file, and nothing else.
C18_EveryEntryMapped ==
    SidebarWritten =>
        MapsLevel(outFs[<<SIDEBAR_TS>>].items, <<>>, <<"/">>, {}, TRUE)

\* C18: the same for the entries buildSidebar does not leave out, which
\* are those named sidebar.ts or index.md and, in the HTML viewer variant,
\* public; spreadsheets are linked by convert.ts only.
C18_ListedEntryMapped ==
    SidebarWritten =>
        MapsLevel(outFs[<<SIDEBAR_TS>>].items, <<>>, <<"/">>,
                  {SIDEBAR_TS, INDEX_MD}
                      \cup (IF variant = "html" THEN {PUBLIC} ELSE {}),
                  variant # "js")

\* The output tree {a.md, sub/b.md} has given the link a at /a and the
\* collapsed group sub holding the link b at /sub/b.
C18_Witness ==
    /\ SidebarWritten
    /\ DOMAIN outFs = {<<A_MD>>, <<SUB>>, <<SUB, B_MD>>, <<SIDEBAR_TS>>}
    /\ outFs[<<SIDEBAR_TS>>].items =
          << [text |-> SUB, collapsed |-> TRUE,
              items |-> <<[text |-> <<"b">>,
                           link |-> <<"/", "s", "u", "b", "/", "b">>]>>],
             [text |-> <<"a">>, link |-> <<"/", "a">>] >>

\* ----------------------------------------------------------- viewer claims
\* C19: in a viewer of one slide or more exactly one container is visible,
\* which is the one of the current index, and the index is within
\* 0..n-1; before any input it is the first container; a step forward
\* from the last slide and a step back from the first leave the index
\* where it was.
C19_OneVisibleInRange ==
    (vpc = "open" /\ wrapsLen >= 1) =>
        /\ active = {viewIdx}
        /\ viewIdx \in 0..(wrapsLen - 1)
        /\ steps = 0 => viewIdx = 0
        /\ (lastStep.d = 1 /\ lastStep.from = wrapsLen - 1)
              => viewIdx = lastStep.from
        /\ (lastStep.d = -1 /\ lastStep.from = 0) => viewIdx = lastStep.from
        /\ (lastStep.d = 1 /\ lastStep.from < wrapsLen - 1)
              => viewIdx = lastStep.from + 1
        /\ (lastStep.d = -1 /\ lastStep.from > 0)
              => viewIdx = lastStep.from - 1

\* A key has asked for the slide after the last of three.
C19_Witness ==
    /\ vpc = "open"
    /\ wrapsLen = 3
    /\ lastStep = [input |-> "PageDown", from |-> 2, d |-> 1, threw |-> FALSE]
    /\ viewIdx = 2
    /\ active = {2}

C29_EmptyViewerNeverRaises ==
    wrapsLen = 0 => (~lastStep.threw /\ viewIdx = 0)

\* ---------------------------------------------- second orchestrator claims
\* C26: within one run no two input files are written to the same output
\* path.
C26_NoOutputPathShared ==
    \A w1, w2 \in writes :
        (w1.dst = w2.dst /\ w1.src # <<>> /\ w2.src # <<>>) => w1.src = w2.src

\* C27: a run never deletes or modifies a file under the input directory,
\* whatever the two directory arguments are.
C27_InputUntouched ==
    \A p \in DOMAIN diskAtStart :
        (Below(INPUT_DIR, p) /\ diskAtStart[p].kind # "dir") =>
            (p \in DOMAIN disk /\ disk[p] = diskAtStart[p])

\* ----------------------------------------------------- second deck claims
\* C21: every slide of the viewer has had its relationship map built from
\* no manifest but its own, the .rels entry named after the slide's file.
C21_RelsFromOwnManifest ==
    renderer = "html" =>
        \A k \in 1..Len(sections) :
            sections[k].relsFrom # <<>>
                => sections[k].relsFrom[1] = RelsName(sections[k].key.digits)

\* The non-blank paragraph texts of the notes document's shapes whose
\* placeholder idx is '1'.
RECURSIVE NotesLinesOf(_)
NotesLinesOf(shapes) ==
    IF shapes = <<>> THEN <<>>
    ELSE LET sp == Head(shapes)
             NonBlank(t) == Trim(t) # <<>>
         IN  (IF sp.phIdx = <<"1">> /\ sp.txBody
              THEN SelectSeq([k \in 1..Len(sp.paragraphs) |->
                                Join(sp.paragraphs[k].r \o sp.paragraphs[k].fld,
                                     <<>>)], NonBlank)
              ELSE <<>>)
             \o NotesLinesOf(Tail(shapes))

\* C23: the notes of a slide are the non-blank paragraph texts of the
\* notes entry's shapes with placeholder idx '1', joined with newlines,
\* and they neither start nor end with white space.
C23_NotesFromIdxOneTrimmed ==
    renderer = "markdown" =>
        \A k \in 1..Len(sections) :
            sections[k].notesFrom # <<>> =>
                LET doc == zipFiles[sections[k].notesFrom[1]].doc
                IN  /\ sections[k].notes = Join(NotesLinesOf(doc.shapes), <<"\n">>)
                    /\ Trim(sections[k].notes) = sections[k].notes

\* C25: a slide whose document has no p:spTree gives an empty extraction,
\* no title and no body block (its section is the heading 'Slide n' and
\* the notes) or no shape in its container, without the conversion being
\* rejected for it; every slide has its section when the loop is over.
C25_MissingTreeEmptySlide ==
    /\ \A k \in 1..Len(sections) :
          ~zipFiles[sections[k].key].doc.spTree =>
              IF renderer = "html" THEN sections[k].shapes = <<>>
              ELSE /\ sections[k].title = <<>>
                   /\ sections[k].bodyBlocks = <<>>
                   /\ FirstLine(sections[k].text) =
                         <<"#", "#", " ", "S", "l", "i", "d", "e", " ">>
                             \o NumberToString(k)
    /\ dpc \in {"join", "done"} => Len(sections) = Len(slideKeys)
    /\ dpc = "rejected" => \E name \in DOMAIN zipFiles : ~zipFiles[name].wellFormed

\* A deck of two slides is converted to Markdown, the first without a
\* p:spTree and the second with a title.
C25_Witness ==
    /\ dpc = "done"
    /\ renderer = "markdown"
    /\ Len(sections) = 2
    /\ ~zipFiles[sections[1].key].doc.spTree
    /\ sections[1].text = <<"#", "#", " ", "S", "l", "i", "d", "e", " ", "1">>
    /\ sections[2].title = <<"a">>
    /\ Len(result) = 3

\* ---------------------------------------------------- second slide claims
\* The shape has a text body and none of its paragraphs has text that is
\* more than white space.
BlankShape(sp) ==
    /\ sp.txBody
    /\ \A k \in 1..Len(sp.paragraphs) :
          Trim(ParseParagraph(sp.paragraphs[k]).text) = <<>>

\* C22: a text shape all of whose paragraphs are empty or hold white space
\* only is used neither as the title nor as a body block.
C22_BlankShapeContributesNothing ==
    \A k \in 1..Len(shapeUse) :
        BlankShape(slideDoc.shapes[k]) => shapeUse[k] = "none"

\* C28: paragraphsToMarkdown returns a string for the paragraphs of every
\* shape, whatever their lvl attributes hold, and no lvl makes parseSlideDoc
\* (and with it the conversion of the deck) raise.
C28_LevelNeverRaises ==
    /\ spc # "threw"
    /\ \A k \in 1..shapeIdx :
          ~ParagraphsToMarkdown(slideDoc.shapes[k].paragraphs).threw

\* C30: on every slide tree convert.js's parseSlideDoc and the Markdown
\* parseSlideDoc of convert.ts give the same title and the same body blocks
\* (and raise together); the isBody rule of convert.js changes nothing.
C30_JsAndTsAgree ==
    /\ jsTitle = slideTitle
    /\ jsBodyBlocks = bodyBlocks
    /\ jsThrew <=> spc = "threw"

\* Both have returned from a slide whose second shape the isBody rule does
\* not call a body (a title placeholder without idx, the title being taken),
\* and both took it as a body block.
C30_Witness ==
    /\ spc = "returned"
    /\ Len(slideDoc.shapes) = 2
    /\ slideDoc.shapes[2].phType = "title"
    /\ slideDoc.shapes[2].phIdx = <<>>
    /\ shapeUse = <<"title", "body">>
    /\ jsTitle # <<>>
    /\ Len(jsBodyBlocks) = 1

\* -------------------------------------------------------- dimension claims
\* C24: the slide dimensions are two positive numbers, whatever the
\* presentation declares.
C24_DimensionsPositive ==
    zpc = "read" => (slideW > 0 /\ slideH > 0)
=============================================================================
